---- MODULE Spec2Model ----
(***************************************************************************)
(* A model of the signature-detection and extraction engine of hextoimage: *)
(* src/core/signatures.py, validators.py, analyzers.py, exporters.py and   *)
(* the part of hex_reader.py that produces the byte records.               *)
(*                                                                         *)
(* Bytes are the integers 0..255, a bytes object is a sequence of bytes.   *)
(* Optional[int] is an integer, with None == -1 (offsets and sizes are     *)
(* never negative).  A confidence is kept in hundredths: 100 is 1.0, and   *)
(* c *= 0.3 is Times(c, 30).  Every score of the program is a product of   *)
(* at most two one-decimal factors, so hundredths are exact.               *)
(***************************************************************************)
EXTENDS Integers, Sequences, FiniteSets, TLC

VARIABLES
    pc,                 \* position of the run: which call has returned
    call,               \* name and arguments of the latest call
    ret,                \* its return value
    hex_data,           \* HexData given to analyze / extract
    analysis_result,    \* AnalysisResult returned by analyze_file_content
    fs,                 \* output directory on disk: [exists, files]
    extraction          \* outcome of extract_detected_files

vars == <<pc, call, ret, hex_data, analysis_result, fs, extraction>>

(***************************************************************************)
(* Bounds of the model.                                                    *)
(***************************************************************************)
MaxData == 5        \* longest free-form haystack given to the search
MaxPat == 2         \* longest free-form needle given to the search
MaxPad == 2         \* longest padding around an embedded start pattern
MaxLead == 1        \* most bytes in front of a header given to a validator
MaxSegs == 2        \* most segments concatenated into a source file
MaxLine == 3        \* largest bytes_per_line tried besides the default

(***************************************************************************)
(* Python values.                                                          *)
(***************************************************************************)
None == -1

Min(a, b) == IF a <= b THEN a ELSE b

\* s[a:b] for 0 <= a and 0 <= b.
Slice(s, a, b) == SubSeq(s, a + 1, Min(b, Len(s)))

\* s[a:]
SliceFrom(s, a) == SubSeq(s, a + 1, Len(s))

\* Sequences over S of length 0..n.
SeqUpTo(S, n) == UNION {[1..k -> S] : k \in 0..n}

\* bytes.find(pattern, start): the lowest index >= start at which pattern
\* occurs entirely inside data, -1 when there is none.  An empty pattern
\* occurs at every index start <= i <= len(data).
Find(data, pattern, start) ==
    LET hits == {i \in start..(Len(data) - Len(pattern)) :
                    \A j \in 1..Len(pattern) : data[i + j] = pattern[j]}
    IN  IF hits = {} THEN -1
        ELSE CHOOSE i \in hits : \A k \in hits : i <= k

(***************************************************************************)
(* analyzers.py: find_pattern_positions                                    *)
(***************************************************************************)
RECURSIVE FindLoop(_, _, _, _)
FindLoop(data, pattern, start, positions) ==
    LET pos == Find(data, pattern, start)
    IN  IF pos = -1 THEN positions
        ELSE FindLoop(data, pattern, pos + 1, Append(positions, pos))

\* A search that resumes after the whole match instead of after its start.
find_pattern_positions_skip(data, pattern) ==
    LET RECURSIVE Loop(_, _)
        Loop(start, positions) ==
            LET pos == Find(data, pattern, start)
            IN  IF pos = -1 THEN positions
                ELSE Loop(pos + (IF pattern = <<>> THEN 1 ELSE Len(pattern)),
                          Append(positions, pos))
    IN  Loop(0, <<>>)

find_pattern_positions(data, pattern) == FindLoop(data, pattern, 0, <<>>)

(***************************************************************************)
(* signatures.py: FileSignature and SIGNATURE_REGISTRY.  The fields are    *)
(* those the class declares; end_pattern None is the empty sequence (the   *)
(* code tests it only by truth value); validator names the validators.py   *)
(* function the entry refers to.                                           *)
(*                                                                         *)
(* As written, FileSignature has no @dataclass decorator (its constructor  *)
(* takes no arguments) and DetectedFile puts @dataclass on a NamedTuple    *)
(* (its constructor cannot set the fields).  Both are modelled as the      *)
(* records their field declarations describe, which is what every function *)
(* that reads them assumes.                                                *)
(***************************************************************************)
RegistryKeys == <<"JPEG", "PNG", "GIF", "WEBP", "TIFF">>

SIGNATURE_REGISTRY ==
    [t \in {"JPEG", "PNG", "GIF", "WEBP", "TIFF"} |->
        CASE t = "JPEG" ->
                [file_type |-> "JPEG", extension |-> "jpg",
                 start_pattern |-> <<\HFF, \HD8, \HFF>>,
                 end_pattern |-> <<\HFF, \HD9>>,
                 min_size |-> 100, validator |-> "validate_jpeg_format"]
          [] t = "PNG" ->
                [file_type |-> "PNG", extension |-> "png",
                 \* \x89 P N G \r \n \x1a \n
                 start_pattern |-> <<\H89, \H50, \H4E, \H47, \H0D, \H0A, \H1A, \H0A>>,
                 \* I E N D \xae B ` \x82
                 end_pattern |-> <<\H49, \H45, \H4E, \H44, \HAE, \H42, \H60, \H82>>,
                 min_size |-> 50, validator |-> "validate_png_format"]
          [] t = "GIF" ->
                [file_type |-> "GIF", extension |-> "gif",
                 start_pattern |-> <<\H47, \H49, \H46, \H38>>,      \* GIF8
                 end_pattern |-> <<\H00, \H3B>>,
                 min_size |-> 35, validator |-> "validate_gif_format"]
          [] t = "WEBP" ->
                [file_type |-> "WEBP", extension |-> "webp",
                 start_pattern |-> <<\H52, \H49, \H46, \H46>>,      \* RIFF
                 end_pattern |-> <<>>,
                 min_size |-> 20, validator |-> "validate_webp_format"]
          [] t = "TIFF" ->
                [file_type |-> "TIFF", extension |-> "tiff",
                 start_pattern |-> <<\H49, \H49, \H2A, \H00>>,      \* II*\x00
                 end_pattern |-> <<>>,
                 min_size |-> 26, validator |-> "validate_tiff_format"]]

\* Literals the code compares against.
big_endian_pattern == <<\H4D, \H4D, \H00, \H2A>>        \* b'MM\x00*'
B_WEBP == <<\H57, \H45, \H42, \H50>>
B_JFIF == <<\H4A, \H46, \H49, \H46>>
B_Exif == <<\H45, \H78, \H69, \H66>>
B_SPIFF == <<\H53, \H50, \H49, \H46, \H46>>
B_IHDR == <<\H49, \H48, \H44, \H52>>
B_GIF87a == <<\H47, \H49, \H46, \H38, \H37, \H61>>
B_GIF89a == <<\H47, \H49, \H46, \H38, \H39, \H61>>
B_II == <<\H49, \H49, \H2A, \H00>>

(***************************************************************************)
(* Confidence arithmetic: hundredths.  Times(c, 30) is c *= 0.3.           *)
(***************************************************************************)
\* A penalty written as 1.5 where the code has 0.5.
TimesBoost(c, f) == IF f = 50 THEN (c * 150) \div 100 ELSE (c * f) \div 100

Times(c, f) == (c * f) \div 100

\* int.from_bytes(b, byteorder) of a 4-byte field.
\* A little-endian read that takes the first byte for the most significant.
FromBytesLittle_swapped(b) == b[4] + 256 * b[3] + 65536 * b[2] + 16777216 * b[1]

FromBytesLittle(b) == b[1] + 256 * b[2] + 65536 * b[3] + 16777216 * b[4]
FromBytesBig(b) == b[4] + 256 * b[3] + 65536 * b[2] + 16777216 * b[1]

(***************************************************************************)
(* validators.py                                                           *)
(***************************************************************************)
\* A marker table that tests the range C0..CF before the byte C0.
validate_jpeg_format_range_first(binary_data, start_pos, end_pos) ==
    IF start_pos + 10 <= Len(binary_data)
    THEN LET jpeg_header == Slice(binary_data, start_pos, start_pos + 10)
         IN  IF Len(jpeg_header) >= 4
             THEN LET fourth_byte == jpeg_header[4]
                  IN  IF fourth_byte = \HE0 /\ start_pos + 14 <= Len(binary_data)
                      THEN IF Slice(binary_data, start_pos + 6, start_pos + 10) = B_JFIF
                           THEN Times(100, 100) ELSE Times(100, 80)
                      ELSE IF fourth_byte = \HE1 /\ start_pos + 10 <= Len(binary_data)
                      THEN IF Slice(binary_data, start_pos + 10, start_pos + 14) = B_Exif
                           THEN Times(100, 100) ELSE Times(100, 80)
                      ELSE IF fourth_byte = \HE8 /\ start_pos + 14 <= Len(binary_data)
                      THEN IF Slice(binary_data, start_pos + 6, start_pos + 11) = B_SPIFF
                           THEN Times(100, 100) ELSE Times(100, 70)
                      ELSE IF fourth_byte = \HDB THEN Times(100, 90)
                      ELSE IF \HC0 <= fourth_byte /\ fourth_byte <= \HCF
                      THEN Times(100, 80)
                      ELSE IF fourth_byte = \HC0 THEN Times(100, 90)
                      ELSE Times(100, 60)
             ELSE Times(100, 30)
    ELSE Times(100, 20)

validate_jpeg_format(binary_data, start_pos, end_pos) ==
    IF start_pos + 10 <= Len(binary_data)
    THEN LET jpeg_header == Slice(binary_data, start_pos, start_pos + 10)
         IN  IF Len(jpeg_header) >= 4
             THEN LET fourth_byte == jpeg_header[4]
                  IN  IF fourth_byte = \HE0 /\ start_pos + 14 <= Len(binary_data)
                      THEN IF Slice(binary_data, start_pos + 6, start_pos + 10) = B_JFIF
                           THEN Times(100, 100) ELSE Times(100, 80)
                      ELSE IF fourth_byte = \HE1 /\ start_pos + 10 <= Len(binary_data)
                      THEN IF Slice(binary_data, start_pos + 10, start_pos + 14) = B_Exif
                           THEN Times(100, 100) ELSE Times(100, 80)
                      ELSE IF fourth_byte = \HE8 /\ start_pos + 14 <= Len(binary_data)
                      THEN IF Slice(binary_data, start_pos + 6, start_pos + 11) = B_SPIFF
                           THEN Times(100, 100) ELSE Times(100, 70)
                      ELSE IF fourth_byte = \HDB THEN Times(100, 90)
                      ELSE IF fourth_byte = \HC0 THEN Times(100, 90)
                      ELSE IF \HC0 <= fourth_byte /\ fourth_byte <= \HCF
                      THEN Times(100, 80)
                      ELSE Times(100, 60)
             ELSE Times(100, 30)
    ELSE Times(100, 20)

validate_webp_format(binary_data, start_pos, end_pos) ==
    IF start_pos + 12 <= Len(binary_data)
    THEN LET riff_header == Slice(binary_data, start_pos, start_pos + 12)
         IN  IF Len(riff_header) >= 12
             THEN IF Slice(riff_header, 8, 12) # B_WEBP
                  THEN Times(100, 10) ELSE 100
             ELSE Times(100, 20)
    ELSE Times(100, 20)

validate_gif_format(binary_data, start_pos, end_pos) ==
    IF start_pos + 6 <= Len(binary_data)
    THEN LET gif_header == Slice(binary_data, start_pos, start_pos + 6)
         IN  IF gif_header \notin {B_GIF87a, B_GIF89a}
             THEN Times(100, 30) ELSE 100
    ELSE Times(100, 20)

validate_png_format(binary_data, start_pos, end_pos) ==
    IF start_pos + 16 <= Len(binary_data)
    THEN LET ihdr_chunk == Slice(binary_data, start_pos + 8, start_pos + 16)
         IN  IF Len(ihdr_chunk) >= 8
             THEN IF Slice(ihdr_chunk, 4, 8) # B_IHDR
                  THEN Times(100, 40) ELSE 100
             ELSE Times(100, 30)
    ELSE Times(100, 20)

validate_tiff_format(binary_data, start_pos, end_pos) ==
    IF start_pos + 8 <= Len(binary_data)
    THEN LET tiff_header == Slice(binary_data, start_pos, start_pos + 8)
         IN  IF Len(tiff_header) >= 4
             THEN IF Slice(tiff_header, 0, 4) = B_II
                  THEN IF Len(tiff_header) >= 8
                       THEN LET ifd_offset == FromBytesLittle(Slice(tiff_header, 4, 8))
                            IN  IF ifd_offset < 8
                                   \/ ifd_offset > Len(binary_data) - start_pos
                                THEN Times(100, 50) ELSE 100
                       ELSE Times(100, 30)
                  ELSE IF Slice(tiff_header, 0, 4) = big_endian_pattern
                  THEN IF Len(tiff_header) >= 8
                       THEN LET ifd_offset == FromBytesBig(Slice(tiff_header, 4, 8))
                            IN  IF ifd_offset < 8
                                   \/ ifd_offset > Len(binary_data) - start_pos
                                THEN Times(100, 50) ELSE 100
                       ELSE Times(100, 30)
                  ELSE Times(100, 20)
             ELSE Times(100, 20)
    ELSE Times(100, 20)

VALIDATOR_REGISTRY ==
    [t \in {"JPEG", "WEBP", "GIF", "PNG", "TIFF"} |->
        CASE t = "JPEG" -> "validate_jpeg_format"
          [] t = "WEBP" -> "validate_webp_format"
          [] t = "GIF" -> "validate_gif_format"
          [] t = "PNG" -> "validate_png_format"
          [] t = "TIFF" -> "validate_tiff_format"]

\* Calling a validator through the reference a registry holds.
CallValidator(validator, binary_data, start_pos, end_pos) ==
    CASE validator = "validate_jpeg_format" ->
            validate_jpeg_format(binary_data, start_pos, end_pos)
      [] validator = "validate_webp_format" ->
            validate_webp_format(binary_data, start_pos, end_pos)
      [] validator = "validate_gif_format" ->
            validate_gif_format(binary_data, start_pos, end_pos)
      [] validator = "validate_png_format" ->
            validate_png_format(binary_data, start_pos, end_pos)
      [] validator = "validate_tiff_format" ->
            validate_tiff_format(binary_data, start_pos, end_pos)

get_validator(file_type) ==
    IF file_type \in DOMAIN VALIDATOR_REGISTRY
    THEN VALIDATOR_REGISTRY[file_type] ELSE "None"

validate_format(file_type, binary_data, start_pos, end_pos) ==
    LET validator == get_validator(file_type)
    IN  IF validator # "None"
        THEN CallValidator(validator, binary_data, start_pos, end_pos)
        ELSE 100

(***************************************************************************)
(* analyzers.py: validate_detected_file.  The size check, then the checks  *)
(* the function itself holds for WEBP, GIF and JPEG; it has none for PNG   *)
(* and TIFF and never calls signature.validator.                           *)
(***************************************************************************)
\* A size check with the two factors the wrong way round.
SizeCheck_swapped(binary_data, start_pos, end_pos, signature) ==
    IF end_pos # None
    THEN IF end_pos - start_pos < signature.min_size THEN Times(100, 50) ELSE 100
    ELSE IF signature.min_size > 0
    THEN IF Len(binary_data) - start_pos < signature.min_size
         THEN Times(100, 30) ELSE 100
    ELSE 100

\* A size check that also takes a file of exactly min_size for too small.
SizeCheck_inclusive(binary_data, start_pos, end_pos, signature) ==
    IF end_pos # None
    THEN IF end_pos - start_pos <= signature.min_size THEN Times(100, 30) ELSE 100
    ELSE IF signature.min_size > 0
    THEN IF Len(binary_data) - start_pos <= signature.min_size
         THEN Times(100, 50) ELSE 100
    ELSE 100

SizeCheck(binary_data, start_pos, end_pos, signature) ==
    IF end_pos # None
    THEN LET file_size == end_pos - start_pos
         IN  IF file_size < signature.min_size THEN Times(100, 30) ELSE 100
    ELSE IF signature.min_size > 0
    THEN LET remaining_data == Len(binary_data) - start_pos
         IN  IF remaining_data < signature.min_size THEN Times(100, 50) ELSE 100
    ELSE 100

validate_detected_file(binary_data, start_pos, end_pos, signature) ==
    LET confidence == SizeCheck(binary_data, start_pos, end_pos, signature)
    IN  IF signature.file_type = "WEBP"
        THEN IF start_pos + 12 <= Len(binary_data)
             THEN LET riff_header == Slice(binary_data, start_pos, start_pos + 12)
                  IN  IF Len(riff_header) >= 12 /\ Slice(riff_header, 8, 12) # B_WEBP
                      THEN Times(confidence, 10) ELSE confidence
             ELSE Times(confidence, 20)
        ELSE IF signature.file_type = "GIF"
        THEN IF start_pos + 6 <= Len(binary_data)
             THEN LET gif_header == Slice(binary_data, start_pos, start_pos + 6)
                  IN  IF gif_header \notin {B_GIF87a, B_GIF89a}
                      THEN Times(confidence, 30) ELSE confidence
             ELSE Times(confidence, 20)
        ELSE IF signature.file_type = "JPEG"
        THEN IF start_pos + 10 <= Len(binary_data)
             THEN LET jpeg_header == Slice(binary_data, start_pos, start_pos + 10)
                  IN  IF Len(jpeg_header) >= 4
                      THEN LET fourth_byte == jpeg_header[4]
                           IN  IF fourth_byte = \HE0 /\ start_pos + 14 <= Len(binary_data)
                               THEN IF Slice(binary_data, start_pos + 6, start_pos + 10) = B_JFIF
                                    THEN Times(confidence, 100) ELSE Times(confidence, 80)
                               ELSE IF fourth_byte = \HE1 /\ start_pos + 10 <= Len(binary_data)
                               THEN IF Slice(binary_data, start_pos + 10, start_pos + 14) = B_Exif
                                    THEN Times(confidence, 100) ELSE Times(confidence, 80)
                               ELSE IF fourth_byte = \HE8 /\ start_pos + 14 <= Len(binary_data)
                               THEN IF Slice(binary_data, start_pos + 6, start_pos + 11) = B_SPIFF
                                    THEN Times(confidence, 100) ELSE Times(confidence, 70)
                               ELSE IF fourth_byte = \HDB THEN Times(confidence, 90)
                               ELSE IF fourth_byte = \HC0 THEN Times(confidence, 90)
                               ELSE IF \HC0 <= fourth_byte /\ fourth_byte <= \HCF
                               THEN Times(confidence, 80)
                               ELSE Times(confidence, 60)
                      ELSE Times(confidence, 30)
             ELSE Times(confidence, 20)
        ELSE confidence

(***************************************************************************)
(* hex_reader.py: read_file_as_hex_data.  A HexLine keeps its offset and   *)
(* raw_bytes; hex_bytes and ascii_repr are renderings of raw_bytes that    *)
(* only the formatters read.                                               *)
(***************************************************************************)
RECURSIVE ReadChunks(_, _, _, _)
ReadChunks(file, bytes_per_line, offset, lines) ==
    LET chunk == Slice(file, offset, offset + bytes_per_line)
    IN  IF chunk = <<>> THEN [lines |-> lines, offset |-> offset]
        ELSE ReadChunks(file, bytes_per_line, offset + Len(chunk),
                        Append(lines, [offset |-> offset, raw_bytes |-> chunk]))

\* file is the content of the file at file_path.
read_file_as_hex_data(file_path, file, bytes_per_line) ==
    LET read == ReadChunks(file, bytes_per_line, 0, <<>>)
    IN  [file_path |-> file_path, file_size |-> Len(file), lines |-> read.lines,
         total_bytes_read |-> read.offset]

(***************************************************************************)
(* analyzers.py: reconstruct_binary_data, find_signature_positions,        *)
(* detect_file_signatures, analyze_file_content                            *)
(***************************************************************************)
RECURSIVE Extend(_, _, _)
Extend(binary_data, lines, i) ==
    IF i > Len(lines) THEN binary_data
    ELSE Extend(binary_data \o lines[i].raw_bytes, lines, i + 1)

\* A reconstruction that puts every line in front of the bytes it has.
reconstruct_binary_data_prepend(hd) ==
    LET RECURSIVE Prepend(_, _)
        Prepend(binary_data, i) ==
            IF i > Len(hd.lines) THEN binary_data
            ELSE Prepend(hd.lines[i].raw_bytes \o binary_data, i + 1)
    IN  Prepend(<<>>, 1)

reconstruct_binary_data(hd) == Extend(<<>>, hd.lines, 1)

\* The end of the candidate that starts at start_pos: lines 112-122.
\* An end search that begins at the start of the candidate.
EndPosition_from_start(binary_data, start_pos, signature) ==
    IF signature.end_pattern # <<>>
    THEN LET end_pattern_pos == Find(binary_data, signature.end_pattern, start_pos)
         IN  IF end_pattern_pos # -1
             THEN end_pattern_pos + Len(signature.end_pattern)
             ELSE None
    ELSE None

EndPosition(binary_data, start_pos, signature) ==
    IF signature.end_pattern # <<>>
    THEN LET search_start == start_pos + Len(signature.start_pattern)
             end_pattern_pos == Find(binary_data, signature.end_pattern, search_start)
         IN  IF end_pattern_pos # -1
             THEN end_pattern_pos + Len(signature.end_pattern)
             ELSE None
    ELSE None

\* A position search that takes every RIFF offset for a WEBP candidate.
find_signature_positions_unfiltered(hd, signature) ==
    LET binary_data == reconstruct_binary_data(hd)
        found == find_pattern_positions(binary_data, signature.start_pattern)
        start_positions ==
            IF signature.file_type = "TIFF"
            THEN found \o find_pattern_positions(binary_data, big_endian_pattern)
            ELSE found
    IN  [i \in 1..Len(start_positions) |->
            <<start_positions[i],
              EndPosition(binary_data, start_positions[i], signature)>>]

\* A position search that looks for the configured TIFF pattern twice.
find_signature_positions_twice(hd, signature) ==
    LET binary_data == reconstruct_binary_data(hd)
        found == find_pattern_positions(binary_data, signature.start_pattern)
        with_big_endian ==
            IF signature.file_type = "TIFF"
            THEN found \o find_pattern_positions(binary_data, signature.start_pattern)
            ELSE found
        IsWebp(pos) ==
            /\ pos + 12 <= Len(binary_data)
            /\ Slice(binary_data, pos + 8, pos + 12) = B_WEBP
        start_positions ==
            IF signature.file_type = "WEBP"
            THEN SelectSeq(with_big_endian, IsWebp)
            ELSE with_big_endian
    IN  [i \in 1..Len(start_positions) |->
            <<start_positions[i],
              EndPosition(binary_data, start_positions[i], signature)>>]

\* A position search that knows the configured start pattern only.
find_signature_positions_configured(hd, signature) ==
    LET binary_data == reconstruct_binary_data(hd)
        found == find_pattern_positions(binary_data, signature.start_pattern)
        IsWebp(pos) ==
            /\ pos + 12 <= Len(binary_data)
            /\ Slice(binary_data, pos + 8, pos + 12) = B_WEBP
        start_positions ==
            IF signature.file_type = "WEBP" THEN SelectSeq(found, IsWebp) ELSE found
    IN  [i \in 1..Len(start_positions) |->
            <<start_positions[i],
              EndPosition(binary_data, start_positions[i], signature)>>]

find_signature_positions(hd, signature) ==
    LET binary_data == reconstruct_binary_data(hd)
        found == find_pattern_positions(binary_data, signature.start_pattern)
        with_big_endian ==
            IF signature.file_type = "TIFF"
            THEN found \o find_pattern_positions(binary_data, big_endian_pattern)
            ELSE found
        IsWebp(pos) ==
            /\ pos + 12 <= Len(binary_data)
            /\ Slice(binary_data, pos + 8, pos + 12) = B_WEBP
        start_positions ==
            IF signature.file_type = "WEBP"
            THEN SelectSeq(with_big_endian, IsWebp)
            ELSE with_big_endian
    IN  [i \in 1..Len(start_positions) |->
            <<start_positions[i],
              EndPosition(binary_data, start_positions[i], signature)>>]

\* Optional[List[str]]: a list of type names is a sequence of strings and
\* None is this value, which is no list of type names.
NoneList == <<"None">>

\* list.sort(key=lambda x: x.start_offset): stable, so an element goes
\* behind the elements already placed whose key is not greater.
\* An insertion that leaves the list in the order of discovery.
InsertByStart_append(sorted, x) == Append(sorted, x)

RECURSIVE InsertByStart(_, _)
InsertByStart(sorted, x) ==
    IF sorted = <<>> THEN <<x>>
    ELSE IF sorted[Len(sorted)].start_offset <= x.start_offset
    THEN Append(sorted, x)
    ELSE Append(InsertByStart(SubSeq(sorted, 1, Len(sorted) - 1), x),
                sorted[Len(sorted)])

RECURSIVE SortByStart(_, _, _)
SortByStart(list, i, sorted) ==
    IF i > Len(list) THEN sorted
    ELSE SortByStart(list, i + 1, InsertByStart(sorted, list[i]))

\* A scan that drops the candidates it scores below 0.5.
DetectType_plausible(hd, binary_data, file_type) ==
    LET signature == SIGNATURE_REGISTRY[file_type]
        Plausible(position) ==
            validate_detected_file(binary_data, position[1], position[2],
                                   signature) >= 50
        positions == SelectSeq(find_signature_positions(hd, signature), Plausible)
    IN  [i \in 1..Len(positions) |->
            LET start_pos == positions[i][1]
                end_pos == positions[i][2]
            IN  [file_type |-> file_type,
                 start_offset |-> start_pos,
                 end_offset |-> end_pos,
                 size |-> IF end_pos # None THEN end_pos - start_pos ELSE None,
                 signature |-> signature,
                 confidence |-> validate_detected_file(binary_data, start_pos,
                                                       end_pos, signature)]]

\* A scan that counts the byte at end_offset into the size.
DetectType_size_inclusive(hd, binary_data, file_type) ==
    LET signature == SIGNATURE_REGISTRY[file_type]
        positions == find_signature_positions(hd, signature)
    IN  [i \in 1..Len(positions) |->
            LET start_pos == positions[i][1]
                end_pos == positions[i][2]
            IN  [file_type |-> file_type,
                 start_offset |-> start_pos,
                 end_offset |-> end_pos,
                 size |-> IF end_pos # None THEN end_pos - start_pos + 1 ELSE None,
                 signature |-> signature,
                 confidence |-> validate_detected_file(binary_data, start_pos,
                                                       end_pos, signature)]]

\* The DetectedFile records of one type: lines 239-260.
DetectType(hd, binary_data, file_type) ==
    LET signature == SIGNATURE_REGISTRY[file_type]
        positions == find_signature_positions(hd, signature)
    IN  [i \in 1..Len(positions) |->
            LET start_pos == positions[i][1]
                end_pos == positions[i][2]
            IN  [file_type |-> file_type,
                 start_offset |-> start_pos,
                 end_offset |-> end_pos,
                 size |-> IF end_pos # None THEN end_pos - start_pos ELSE None,
                 signature |-> signature,
                 confidence |-> validate_detected_file(binary_data, start_pos,
                                                       end_pos, signature)]]

RECURSIVE DetectLoop(_, _, _, _, _)
DetectLoop(hd, binary_data, target_types, i, detected_files) ==
    IF i > Len(target_types) THEN detected_files
    ELSE IF target_types[i] \notin DOMAIN SIGNATURE_REGISTRY
    THEN DetectLoop(hd, binary_data, target_types, i + 1, detected_files)
    ELSE DetectLoop(hd, binary_data, target_types, i + 1,
                    detected_files \o DetectType(hd, binary_data, target_types[i]))

detect_file_signatures(hd, target_types) ==
    LET types == IF target_types = NoneList THEN RegistryKeys ELSE target_types
        binary_data == reconstruct_binary_data(hd)
        detected_files == DetectLoop(hd, binary_data, types, 1, <<>>)
    IN  SortByStart(detected_files, 1, <<>>)

\* summary[file_type] = summary.get(file_type, 0) + 1; a dict is a function
\* and the empty dict is the function of empty domain.
RECURSIVE Tally(_, _, _)
Tally(detected_files, i, summary) ==
    IF i > Len(detected_files) THEN summary
    ELSE LET file_type == detected_files[i].file_type
         IN  Tally(detected_files, i + 1,
                   IF file_type \in DOMAIN summary
                   THEN [summary EXCEPT ![file_type] = @ + 1]
                   ELSE summary @@ (file_type :> 1))

analyze_file_content(hd, target_types) ==
    LET detected_files == detect_file_signatures(hd, target_types)
    IN  [source_file |-> hd.file_path,
         source_file_size |-> hd.file_size,
         detected_files |-> detected_files,
         analysis_summary |-> Tally(detected_files, 1, <<>>)]

(***************************************************************************)
(* exporters.py.  The output directory is fs = [exists, files], files a    *)
(* function from file name to content.  What the filesystem refuses is an  *)
(* input of the call: fault names the directory call that raises OSError   *)
(* ("rmtree", "makedirs" or "none"), write_fails holds the values of       *)
(* file_counter at which open() fails.                                     *)
(***************************************************************************)
NoneBytes == <<-1>>         \* Optional[bytes] None: no sequence of bytes

abspath(output_dir) == "/" \o output_dir

\* A directory call whose OSError is swallowed.
create_output_directory_swallow(dir, clean_existing, fault) ==
    [raised |-> FALSE, fs |-> [exists |-> TRUE, files |-> dir.files]]

\* A directory call that keeps what an existing directory holds.
create_output_directory_keep(dir, clean_existing, fault) ==
    IF dir.exists THEN [raised |-> FALSE, fs |-> dir]
    ELSE IF fault = "makedirs" THEN [raised |-> TRUE, fs |-> dir]
         ELSE [raised |-> FALSE, fs |-> [exists |-> TRUE, files |-> <<>>]]

create_output_directory(dir, clean_existing, fault) ==
    IF dir.exists
    THEN IF clean_existing
         THEN IF fault = "rmtree" THEN [raised |-> TRUE, fs |-> dir]
              ELSE IF fault = "makedirs"
              THEN [raised |-> TRUE, fs |-> [exists |-> FALSE, files |-> <<>>]]
              ELSE [raised |-> FALSE, fs |-> [exists |-> TRUE, files |-> <<>>]]
         ELSE [raised |-> FALSE, fs |-> dir]
    ELSE IF fault = "makedirs" THEN [raised |-> TRUE, fs |-> dir]
         ELSE [raised |-> FALSE, fs |-> [exists |-> TRUE, files |-> <<>>]]

\* f"{file_number:03d}"
Pad3(n) ==
    IF n < 10 THEN "00" \o ToString(n)
    ELSE IF n < 100 THEN "0" \o ToString(n)
    ELSE ToString(n)

\* f"{x:.2f}" of a value kept in hundredths
Fmt2(c) ==
    ToString(c \div 100) \o "." \o
        (IF c % 100 < 10 THEN "0" \o ToString(c % 100) ELSE ToString(c % 100))

\* str(x) of an Optional[int]
Str(x) == IF x = None THEN "None" ELSE ToString(x)

\* A name whose number is not padded.
generate_filename_unpadded(detected_file, file_number, use_original_extension) ==
    "file-" \o ToString(file_number) \o "." \o detected_file.signature.extension

generate_filename(detected_file, file_number, use_original_extension) ==
    LET extension == IF use_original_extension
                     THEN detected_file.signature.extension
                     ELSE "bin"
    IN  "file-" \o Pad3(file_number) \o "." \o extension

\* A slice that stops one byte before end_pos.
extract_file_data_short(hd, detected_file) ==
    LET binary_data == reconstruct_binary_data(hd)
        start_pos == detected_file.start_offset
        end_pos == detected_file.end_offset
        extracted_data == IF end_pos = None
                          THEN SliceFrom(binary_data, start_pos)
                          ELSE Slice(binary_data, start_pos, end_pos - 1)
    IN  IF Len(extracted_data) < detected_file.signature.min_size
        THEN NoneBytes
        ELSE extracted_data

extract_file_data(hd, detected_file) ==
    LET binary_data == reconstruct_binary_data(hd)
        start_pos == detected_file.start_offset
        end_pos == detected_file.end_offset
        extracted_data == IF end_pos = None
                          THEN SliceFrom(binary_data, start_pos)
                          ELSE Slice(binary_data, start_pos, end_pos)
    IN  IF Len(extracted_data) < detected_file.signature.min_size
        THEN NoneBytes
        ELSE extracted_data

\* open(output_path, 'wb') and write: creates or replaces the file.
save_extracted_file(files, file_data, filename, can_open) ==
    IF can_open
    THEN [ok |-> TRUE,
          files |-> [n \in DOMAIN files \cup {filename} |->
                        IF n = filename THEN file_data ELSE files[n]]]
    ELSE [ok |-> FALSE, files |-> files]

\* if file_types and detected_file.file_type not in file_types: continue
Filtered(detected_file, file_types) ==
    /\ file_types # NoneList
    /\ file_types # <<>>
    /\ \A k \in 1..Len(file_types) : file_types[k] # detected_file.file_type

\* The failure entries: lines 163-167, 176-180, 200-204.
LowConfidence(file_counter, detected_file, min_confidence) ==
    [file_number |-> file_counter,
     file_type |-> detected_file.file_type,
     reason |-> "Low confidence score: " \o Fmt2(detected_file.confidence)
                    \o " < " \o Fmt2(min_confidence)]

TooSmall(file_counter, detected_file) ==
    [file_number |-> file_counter,
     file_type |-> detected_file.file_type,
     reason |-> "Failed to extract data or file too small"]

NotSaved(file_counter, detected_file) ==
    [file_number |-> file_counter,
     file_type |-> detected_file.file_type,
     reason |-> "Failed to save file to disk"]

\* The success entry: lines 189-198.
Extracted(file_counter, filename, detected_file, file_data, output_path) ==
    [file_number |-> file_counter,
     filename |-> filename,
     file_type |-> detected_file.file_type,
     extension |-> detected_file.signature.extension,
     size |-> Len(file_data),
     original_position |-> ToString(detected_file.start_offset) \o "-"
                              \o Str(detected_file.end_offset),
     confidence |-> detected_file.confidence,
     output_path |-> output_path]

\* A pass that also turns away a region scored exactly min_confidence.
ExtractOne_inclusive(hd, detected_file, abs_output_dir, file_types, min_confidence, write_fails, st) ==
    IF Filtered(detected_file, file_types) THEN st
    ELSE IF detected_file.confidence <= min_confidence
    THEN [st EXCEPT
            !.failed_extractions =
                Append(@, LowConfidence(st.file_counter, detected_file, min_confidence)),
            !.file_counter = @ + 1]
    ELSE LET file_data == extract_file_data(hd, detected_file)
         IN  IF file_data = NoneBytes
             THEN \* continue: file_counter keeps its value
                  [st EXCEPT
                    !.failed_extractions =
                        Append(@, TooSmall(st.file_counter, detected_file))]
             ELSE LET filename == generate_filename(detected_file, st.file_counter, TRUE)
                      output_path == abs_output_dir \o "/" \o filename
                      saved == save_extracted_file(st.files, file_data, filename,
                                                   st.file_counter \notin write_fails)
                  IN  IF saved.ok
                      THEN [st EXCEPT
                              !.extracted_files =
                                  Append(@, Extracted(st.file_counter, filename,
                                                      detected_file, file_data,
                                                      output_path)),
                              !.files = saved.files,
                              !.file_counter = @ + 1]
                      ELSE [st EXCEPT
                              !.failed_extractions =
                                  Append(@, NotSaved(st.file_counter, detected_file)),
                              !.file_counter = @ + 1]

\* A pass in which a region the type filter excludes takes a file number.
ExtractOne_skip_counts(hd, detected_file, abs_output_dir, file_types, min_confidence, write_fails, st) ==
    IF Filtered(detected_file, file_types)
    THEN [st EXCEPT !.file_counter = @ + 1]
    ELSE IF detected_file.confidence < min_confidence
    THEN [st EXCEPT
            !.failed_extractions =
                Append(@, LowConfidence(st.file_counter, detected_file, min_confidence)),
            !.file_counter = @ + 1]
    ELSE LET file_data == extract_file_data(hd, detected_file)
         IN  IF file_data = NoneBytes
             THEN \* continue: file_counter keeps its value
                  [st EXCEPT
                    !.failed_extractions =
                        Append(@, TooSmall(st.file_counter, detected_file))]
             ELSE LET filename == generate_filename(detected_file, st.file_counter, TRUE)
                      output_path == abs_output_dir \o "/" \o filename
                      saved == save_extracted_file(st.files, file_data, filename,
                                                   st.file_counter \notin write_fails)
                  IN  IF saved.ok
                      THEN [st EXCEPT
                              !.extracted_files =
                                  Append(@, Extracted(st.file_counter, filename,
                                                      detected_file, file_data,
                                                      output_path)),
                              !.files = saved.files,
                              !.file_counter = @ + 1]
                      ELSE [st EXCEPT
                              !.failed_extractions =
                                  Append(@, NotSaved(st.file_counter, detected_file)),
                              !.file_counter = @ + 1]

\* One pass of the for loop, lines 156-213, on the running
\* st = [extracted_files, failed_extractions, file_counter, files].  The
\* except branch of lines 206-211 has no source: extract_file_data and
\* save_extracted_file catch their own exceptions and return None / False.
ExtractOne(hd, detected_file, abs_output_dir, file_types, min_confidence, write_fails, st) ==
    IF Filtered(detected_file, file_types) THEN st
    ELSE IF detected_file.confidence < min_confidence
    THEN [st EXCEPT
            !.failed_extractions =
                Append(@, LowConfidence(st.file_counter, detected_file, min_confidence)),
            !.file_counter = @ + 1]
    ELSE LET file_data == extract_file_data(hd, detected_file)
         IN  IF file_data = NoneBytes
             THEN \* continue: file_counter keeps its value
                  [st EXCEPT
                    !.failed_extractions =
                        Append(@, TooSmall(st.file_counter, detected_file))]
             ELSE LET filename == generate_filename(detected_file, st.file_counter, TRUE)
                      output_path == abs_output_dir \o "/" \o filename
                      saved == save_extracted_file(st.files, file_data, filename,
                                                   st.file_counter \notin write_fails)
                  IN  IF saved.ok
                      THEN [st EXCEPT
                              !.extracted_files =
                                  Append(@, Extracted(st.file_counter, filename,
                                                      detected_file, file_data,
                                                      output_path)),
                              !.files = saved.files,
                              !.file_counter = @ + 1]
                      ELSE [st EXCEPT
                              !.failed_extractions =
                                  Append(@, NotSaved(st.file_counter, detected_file)),
                              !.file_counter = @ + 1]

\* A loop that stops at the first region it records as failed.
RECURSIVE ExtractLoop_abort(_, _, _, _, _, _, _, _)
ExtractLoop_abort(hd, detected_files, i, abs_output_dir, file_types, min_confidence, write_fails, st) ==
    IF i > Len(detected_files) THEN st
    ELSE LET next == ExtractOne(hd, detected_files[i], abs_output_dir, file_types,
                                min_confidence, write_fails, st)
         IN  IF Len(next.failed_extractions) > Len(st.failed_extractions)
             THEN next
             ELSE ExtractLoop_abort(hd, detected_files, i + 1, abs_output_dir,
                                    file_types, min_confidence, write_fails, next)

RECURSIVE ExtractLoop(_, _, _, _, _, _, _, _)
ExtractLoop(hd, detected_files, i, abs_output_dir, file_types, min_confidence, write_fails, st) ==
    IF i > Len(detected_files) THEN st
    ELSE ExtractLoop(hd, detected_files, i + 1, abs_output_dir, file_types,
                     min_confidence, write_fails,
                     ExtractOne(hd, detected_files[i], abs_output_dir, file_types,
                                min_confidence, write_fails, st))

\* A rate of 1.0 when nothing was attempted.
SuccessRate_vacuous(extracted_files, failed_extractions) ==
    LET total_attempted == Len(extracted_files) + Len(failed_extractions)
    IN  IF total_attempted > 0
        THEN [num |-> Len(extracted_files), den |-> total_attempted]
        ELSE [num |-> 1, den |-> 1]

\* The rate taken over the failures alone.
SuccessRate_over_failures(extracted_files, failed_extractions) ==
    IF Len(failed_extractions) > 0
    THEN [num |-> Len(extracted_files), den |-> Len(failed_extractions)]
    ELSE [num |-> 0, den |-> 1]

\* success_rate is a quotient of two counts: kept as [num, den], 0.0 is 0/1.
SuccessRate(extracted_files, failed_extractions) ==
    LET total_attempted == Len(extracted_files) + Len(failed_extractions)
    IN  IF total_attempted > 0
        THEN [num |-> Len(extracted_files), den |-> total_attempted]
        ELSE [num |-> 0, den |-> 1]

\* Returns the directory as the call leaves it and what the caller gets:
\* an ExtractionResult, or the OSError of create_output_directory.
extract_detected_files(hd, analysis, output_dir, clean_existing, file_types, min_confidence, dir, fault, write_fails) ==
    LET created == create_output_directory(dir, clean_existing, fault)
    IN  IF created.raised
        THEN [fs |-> created.fs, result |-> [status |-> "raised", error |-> "OSError"]]
        ELSE LET abs_output_dir == abspath(output_dir)
                 st == ExtractLoop(hd, analysis.detected_files, 1, abs_output_dir,
                                   file_types, min_confidence, write_fails,
                                   [extracted_files |-> <<>>,
                                    failed_extractions |-> <<>>,
                                    file_counter |-> 1,
                                    files |-> created.fs.files])
             IN  [fs |-> [exists |-> TRUE, files |-> st.files],
                  result |->
                    [status |-> "returned",
                     source_file |-> analysis.source_file,
                     output_directory |-> abs_output_dir,
                     extracted_files |-> st.extracted_files,
                     total_extracted |-> Len(st.extracted_files),
                     failed_extractions |-> st.failed_extractions,
                     success_rate |-> SuccessRate(st.extracted_files,
                                                  st.failed_extractions)]]

(***************************************************************************)
(* The pattern search as a call of its own: every haystack and needle of   *)
(* the bounded sets below, the registered start patterns among them.       *)
(***************************************************************************)
SearchAlphabet == {\H61, \HFF}          \* 'a' and a byte of the JPEG magic

StartPatterns ==
    {SIGNATURE_REGISTRY[t].start_pattern : t \in DOMAIN SIGNATURE_REGISTRY}
        \cup {big_endian_pattern}

SearchPatterns == SeqUpTo(SearchAlphabet, MaxPat) \cup StartPatterns

SearchData ==
    SeqUpTo(SearchAlphabet, MaxData)
        \cup {pre \o p \o post : pre \in SeqUpTo(SearchAlphabet, MaxPad),
                                 p \in StartPatterns,
                                 post \in SeqUpTo(SearchAlphabet, MaxPad)}

NoCall == [fn |-> "none"]
NoHexData == [file_path |-> "", file_size |-> 0, lines |-> <<>>,
              total_bytes_read |-> 0]
NoAnalysis == [source_file |-> "", source_file_size |-> 0,
               detected_files |-> <<>>, analysis_summary |-> <<>>]
NoFs == [exists |-> FALSE, files |-> <<>>]
NoExtraction == [status |-> "none"]

PipelineIdle ==
    /\ hex_data = NoHexData
    /\ analysis_result = NoAnalysis
    /\ fs = NoFs
    /\ extraction = NoExtraction

InitSearch ==
    /\ pc = "call"
    /\ \E d \in SearchData, p \in SearchPatterns :
            call = [fn |-> "find_pattern_positions", data |-> d, pattern |-> p]
    /\ ret = None
    /\ PipelineIdle

FindPatternPositions ==
    /\ pc = "call"
    /\ call.fn = "find_pattern_positions"
    /\ ret' = find_pattern_positions(call.data, call.pattern)
    /\ pc' = "returned"
    /\ UNCHANGED <<call, hex_data, analysis_result, fs, extraction>>

NextSearch == FindPatternPositions

SpecSearch == InitSearch /\ [][NextSearch]_vars

\* The offsets at which pattern occurs in data.
Occurrences(data, pattern) ==
    {p \in 0..Len(data) :
        /\ p + Len(pattern) <= Len(data)
        /\ Slice(data, p, p + Len(pattern)) = pattern}

SearchReturned == pc = "returned" /\ call.fn = "find_pattern_positions"

\* C1: for a non-empty pattern find_pattern_positions returns, strictly
\* ascending and so without duplicates, exactly the offsets p with
\* data[p:p+len(pattern)] == pattern, overlapping ones included: "aa" in
\* "aaa" gives [0,1], and a single occurrence at offset k gives [k].
C1_FindAllOccurrences ==
    (SearchReturned /\ call.pattern # <<>>) =>
        /\ \A i \in 1..(Len(ret) - 1) : ret[i] < ret[i + 1]
        /\ {ret[i] : i \in 1..Len(ret)} = Occurrences(call.data, call.pattern)
        /\ (call.data = <<\H61, \H61, \H61>> /\ call.pattern = <<\H61, \H61>>)
                => ret = <<0, 1>>
        /\ \A k \in 0..Len(call.data) :
                Occurrences(call.data, call.pattern) = {k} => ret = <<k>>

\* C1 witness: the overlapping search of "aa" in "aaa" has returned [0,1].
C1_Witness ==
    /\ SearchReturned
    /\ call.data = <<\H61, \H61, \H61>>
    /\ call.pattern = <<\H61, \H61>>
    /\ ret = <<0, 1>>

\* C2: find_pattern_positions returns the empty list whenever the haystack
\* is empty or the needle is empty.
C2_EmptyArgumentNoMatch ==
    (SearchReturned /\ (call.data = <<>> \/ call.pattern = <<>>)) => ret = <<>>

(***************************************************************************)
(* The validators as calls of their own.  The buffers hold one header      *)
(* sample, cut at every length (a buffer that ends inside the inspection   *)
(* window) or padded to the lengths around each min_size, behind 0 to      *)
(* MaxLead bytes; each is scored as every registered type.                 *)
(***************************************************************************)
Zeros(n) == [i \in 1..n |-> 0]

HeaderSamples ==
    { <<\HFF, \HD8, \HFF, \HE0, 0, 16>> \o B_JFIF \o <<0, 1, 1, 0>>,
      <<\HFF, \HD8, \HFF, \HE0, 0, 16, 1, 2, 3, 4, 0, 1, 1, 0>>,
      <<\HFF, \HD8, \HFF, \HE1, 0, 16, 0, 0, 0, 0>> \o B_Exif,
      <<\HFF, \HD8, \HFF, \HE1, 0, 16>> \o B_Exif \o <<0, 0, 0, 0>>,
      <<\HFF, \HD8, \HFF, \HE8, 0, 16>> \o B_SPIFF \o <<0, 0, 0>>,
      <<\HFF, \HD8, \HFF, \HE8, 0, 16, 0, 0, 0, 0, 0, 0, 0, 0>>,
      <<\HFF, \HD8, \HFF, \HDB, 0, 67, 0, 1, 1, 1, 1, 1, 1, 1>>,
      <<\HFF, \HD8, \HFF, \HC0, 0, 11, 8, 0, 1, 0, 1, 1, 1, 17>>,
      <<\HFF, \HD8, \HFF, \HC4, 0, 20, 0, 0, 0, 0, 0, 0, 0, 0>>,
      <<\HFF, \HD8, \HFF, \HFE, 0, 4, 1, 1, 0, 0, 0, 0, 0, 0>>,
      SIGNATURE_REGISTRY["PNG"].start_pattern \o <<0, 0, 0, 13>> \o B_IHDR,
      SIGNATURE_REGISTRY["PNG"].start_pattern \o <<0, 0, 0, 13, \H49, \H44, \H41, \H54>>,
      B_GIF87a, B_GIF89a, <<\H47, \H49, \H46, \H38, \H38, \H61>>,
      SIGNATURE_REGISTRY["WEBP"].start_pattern \o <<4, 0, 0, 0>> \o B_WEBP,
      SIGNATURE_REGISTRY["WEBP"].start_pattern \o <<4, 0, 0, 0, \H57, \H41, \H56, \H45>>,
      B_II \o <<8, 0, 0, 0>>, B_II \o <<2, 0, 0, 0>>, B_II \o <<0, 1, 0, 0>>,
      B_II \o <<0, 0, 0, 8>>,
      big_endian_pattern \o <<0, 0, 0, 8>>, big_endian_pattern \o <<0, 0, 0, 2>>,
      big_endian_pattern \o <<0, 0, 1, 0>>, big_endian_pattern \o <<8, 0, 0, 0>> }

MinSizes == {SIGNATURE_REGISTRY[t].min_size : t \in DOMAIN SIGNATURE_REGISTRY}

PaddedLengths == {m - 1 : m \in MinSizes} \cup MinSizes

ValidateBuffers ==
    UNION {
        {Zeros(lead) \o Slice(h, 0, k) : k \in 0..Len(h)}
            \cup {Zeros(lead) \o h \o Zeros(n - Len(h)) : n \in PaddedLengths}
        : lead \in 0..MaxLead, h \in HeaderSamples }

EndChoices(binary_data, start_pos, signature) ==
    {None} \cup
    {e \in {Len(binary_data), start_pos + 1,
            start_pos + signature.min_size - 1, start_pos + signature.min_size} :
        start_pos <= e /\ e <= Len(binary_data)}

InitValidate ==
    /\ pc = "call"
    /\ \E f \in {"validate_detected_file", "validate_format"},
          t \in DOMAIN SIGNATURE_REGISTRY,
          b \in ValidateBuffers,
          s \in 0..MaxLead :
            \E e \in EndChoices(b, s, SIGNATURE_REGISTRY[t]) :
                call = [fn |-> f, file_type |-> t, binary_data |-> b,
                        start_pos |-> s, end_pos |-> e]
    /\ ret = None
    /\ PipelineIdle

ValidateDetectedFile ==
    /\ pc = "call"
    /\ call.fn = "validate_detected_file"
    /\ ret' = validate_detected_file(call.binary_data, call.start_pos, call.end_pos,
                                     SIGNATURE_REGISTRY[call.file_type])
    /\ pc' = "returned"
    /\ UNCHANGED <<call, hex_data, analysis_result, fs, extraction>>

ValidateFormat ==
    /\ pc = "call"
    /\ call.fn = "validate_format"
    /\ ret' = validate_format(call.file_type, call.binary_data, call.start_pos,
                              call.end_pos)
    /\ pc' = "returned"
    /\ UNCHANGED <<call, hex_data, analysis_result, fs, extraction>>

NextValidate == ValidateDetectedFile \/ ValidateFormat

SpecValidate == InitValidate /\ [][NextValidate]_vars

ValidateReturned ==
    pc = "returned" /\ call.fn \in {"validate_detected_file", "validate_format"}

\* C10: every confidence validate_detected_file or a per-format validator
\* computes lies in [0.0, 1.0], a buffer that ends inside the inspection
\* window included; the score starts at 1.0 and no check raises it: the
\* result of validate_detected_file is at most the score after its size
\* check, which is at most 1.0.
C10_ConfidenceBounds ==
    ValidateReturned =>
        /\ 0 <= ret /\ ret <= 100
        /\ call.fn = "validate_detected_file" =>
                ret <= SizeCheck(call.binary_data, call.start_pos, call.end_pos,
                                 SIGNATURE_REGISTRY[call.file_type])

\* C10 witness: a JPEG candidate whose buffer ends 5 bytes after its start,
\* with an end offset: undersized (x0.3) and too short to inspect (x0.2).
C10_Witness ==
    /\ ValidateReturned
    /\ call.fn = "validate_detected_file"
    /\ call.file_type = "JPEG"
    /\ Len(call.binary_data) - call.start_pos = 5
    /\ call.end_pos # None
    /\ ret = 6

(***************************************************************************)
(* The pipeline: a source file is read, analyzed, and its regions are      *)
(* extracted.  Source files are concatenations of the segments below.      *)
(***************************************************************************)
Rep(b, n) == [i \in 1..n |-> b]

\* A minimal baseline JFIF file: SOI, APP0, DQT, SOF0, DHT, SOS, EOI.
SegJpegJfif ==
    <<\HFF, \HD8, \HFF, \HE0, 0, 16>> \o B_JFIF \o <<0, 1, 1, 0, 0, 1, 0, 1, 0, 0>>
    \o <<\HFF, \HDB, 0, 67, 0>> \o Rep(1, 64)
    \o <<\HFF, \HC0, 0, 11, 8, 0, 1, 0, 1, 1, 1, 17, 0>>
    \o <<\HFF, \HC4, 0, 20, 0, 1>> \o Rep(0, 15) \o <<0>>
    \o <<\HFF, \HDA, 0, 8, 1, 1, 0, 0, 63, 0>>
    \o <<\H7F>>
    \o <<\HFF, \HD9>>

\* A JPEG that opens with its quantization table and has no APP segment.
SegJpegDqt ==
    <<\HFF, \HD8>> \o <<\HFF, \HDB, 0, 67, 0>> \o Rep(1, 64)
    \o <<\HFF, \HC0, 0, 11, 8, 0, 1, 0, 1, 1, 1, 17, 0>>
    \o <<\HFF, \HDA, 0, 8, 1, 1, 0, 0, 63, 0>>
    \o <<\H7F, \H7F, \H7F, \H7F, \H7F, \H7F>>
    \o <<\HFF, \HD9>>

\* A minimal 1x1 PNG: signature, IHDR, IDAT, IEND.
SegPng ==
    SIGNATURE_REGISTRY["PNG"].start_pattern
    \o <<0, 0, 0, 13>> \o B_IHDR
    \o <<0, 0, 0, 1, 0, 0, 0, 1, 8, 0, 0, 0, 0>> \o <<\H3A, \H7E, \H9B, \H55>>
    \o <<0, 0, 0, 10, \H49, \H44, \H41, \H54>>
    \o <<\H78, \H9C, \H63, \H60, 0, 0, 0, 2, 0, 1>> \o <<\H48, \HAF, \HA4, \H71>>
    \o <<0, 0, 0, 0>> \o SIGNATURE_REGISTRY["PNG"].end_pattern

\* GIF8 followed by a version that is neither 87a nor 89a, 35 bytes.
SegGifBadVersion ==
    <<\H47, \H49, \H46, \H38, \H38, \H61>> \o Rep(1, 27) \o <<\H00, \H3B>>

\* A RIFF/WEBP header and nothing behind it.
SegWebpHeader ==
    SIGNATURE_REGISTRY["WEBP"].start_pattern \o <<4, 0, 0, 0>> \o B_WEBP

\* SOI and the APP0 segment of a JFIF file, cut off behind it.
SegJpegHeader ==
    <<\HFF, \HD8, \HFF, \HE0, 0, 16>> \o B_JFIF \o <<0, 1, 1, 0, 0, 1, 0, 1, 0, 0>>

\* A PNG signature followed by an IDAT chunk where IHDR belongs, and IEND.
SegPngNoIhdr ==
    SIGNATURE_REGISTRY["PNG"].start_pattern
    \o <<0, 0, 0, 0, \H49, \H44, \H41, \H54>> \o <<\H35, \HAF, \H06, \H1E>>
    \o <<0, 0, 0, 0>> \o SIGNATURE_REGISTRY["PNG"].end_pattern

\* Bytes that hold no signature.
SegFiller == <<\H10, \H20, \H30, \H40, \H50, \H60, \H70, \H80>>

Segments ==
    {SegJpegJfif, SegJpegDqt, SegPng, SegGifBadVersion, SegWebpHeader,
     SegJpegHeader, SegFiller}

RECURSIVE Concatenations(_)
Concatenations(n) ==
    IF n = 0 THEN {<<>>}
    ELSE LET shorter == Concatenations(n - 1)
         IN  shorter \cup {f \o seg : f \in shorter, seg \in Segments}

\* JPEG, PNG and filler; and three extractable regions scored 0.9, 0.3, 0.9.
RoundTripFile == SegJpegJfif \o SegPng \o SegFiller
ThreeRegionFile == SegJpegDqt \o SegGifBadVersion \o SegJpegDqt

\* An undersized PNG with its end, then a JPEG header without end.
UndersizedFile == SegPngNoIhdr \o SegJpegHeader

SourceFiles ==
    Concatenations(MaxSegs) \cup {RoundTripFile, ThreeRegionFile, UndersizedFile}

SourcePath == "input.bin"
OutputDir == "result"
DefaultBytesPerLine == 16
DefaultMinConfidence == 50

\* The output directory before the call: absent, empty, or holding files of
\* an earlier run.
StaleFile == <<\HDE, \HAD>>
InitialDirs ==
    { [exists |-> FALSE, files |-> <<>>],
      [exists |-> TRUE, files |-> <<>>],
      [exists |-> TRUE,
       files |-> [n \in {"file-001.jpg", "notes.txt"} |-> StaleFile]] }

TargetTypeChoices == {NoneList, <<"PNG", "JPEG", "BMP">>}
TypeFilters == {NoneList, <<"JPEG">>, <<"PNG", "GIF", "WEBP">>}
MinConfidences == {DefaultMinConfidence, 30, 95}
DirFaults == {"none", "rmtree", "makedirs"}

\* The other inputs vary in the calls whose directory calls are not made to
\* fail; a call with a failing directory call is tried with the defaults.
FiltersTried(fault) == IF fault = "none" THEN TypeFilters ELSE {NoneList}
ConfidencesTried(fault) ==
    IF fault = "none" THEN MinConfidences ELSE {DefaultMinConfidence}
WriteFailsTried(fault, n) == IF fault = "none" THEN SUBSET (1..n) ELSE {{}}

Init ==
    /\ pc = "read"
    /\ call = NoCall
    /\ ret = None
    /\ \E file \in SourceFiles :
            hex_data = read_file_as_hex_data(SourcePath, file, DefaultBytesPerLine)
    /\ analysis_result = NoAnalysis
    /\ fs \in InitialDirs
    /\ extraction = NoExtraction

AnalyzeFileContent ==
    /\ pc = "read"
    /\ \E target_types \in TargetTypeChoices :
        /\ analysis_result' = analyze_file_content(hex_data, target_types)
        /\ call' = [fn |-> "analyze_file_content", target_types |-> target_types]
    /\ pc' = "analyzed"
    /\ UNCHANGED <<ret, hex_data, fs, extraction>>

ExtractDetectedFiles ==
    /\ pc = "analyzed"
    /\ \E clean_existing \in BOOLEAN, fault \in DirFaults :
        \E file_types \in FiltersTried(fault),
           min_confidence \in ConfidencesTried(fault),
           write_fails \in WriteFailsTried(fault, Len(analysis_result.detected_files)) :
            LET out == extract_detected_files(hex_data, analysis_result, OutputDir,
                                              clean_existing, file_types,
                                              min_confidence, fs, fault, write_fails)
            IN  /\ fs' = out.fs
                /\ extraction' = out.result
                /\ call' = [fn |-> "extract_detected_files",
                            dir |-> fs,
                            clean_existing |-> clean_existing,
                            file_types |-> file_types,
                            min_confidence |-> min_confidence,
                            fault |-> fault,
                            write_fails |-> write_fails]
    /\ pc' = "extracted"
    /\ UNCHANGED <<ret, hex_data, analysis_result>>

Next == AnalyzeFileContent \/ ExtractDetectedFiles

Spec == Init /\ [][Next]_vars

(***************************************************************************)
(* What the claims speak of.                                               *)
(***************************************************************************)
Binary == reconstruct_binary_data(hex_data)
Regions == analysis_result.detected_files
Analyzed == pc \in {"analyzed", "extracted"}
Returned == pc = "extracted" /\ extraction.status = "returned"

\* The call as the caller makes it by default, on a disk that refuses nothing.
DefaultCall ==
    /\ call.min_confidence = DefaultMinConfidence
    /\ call.file_types = NoneList
    /\ call.write_fails = {}

NonFiltered == SelectSeq(Regions, LAMBDA r : ~Filtered(r, call.file_types))

IsLowConfidenceEntry(f) ==
    f.reason \notin {"Failed to extract data or file too small",
                     "Failed to save file to disk"}

Count(seq, Test(_)) == Cardinality({i \in 1..Len(seq) : Test(seq[i])})

\* The running state of the loop after the first k regions.
AfterRegions(k) ==
    ExtractLoop(hex_data, SubSeq(Regions, 1, k), 1, abspath(OutputDir),
                call.file_types, call.min_confidence, call.write_fails,
                [extracted_files |-> <<>>, failed_extractions |-> <<>>,
                 file_counter |-> 1, files |-> <<>>])

\* Files an earlier run left in the directory.
IsStale(n) ==
    /\ n \in {"file-001.jpg", "notes.txt"}
    /\ fs.files[n] = StaleFile

\* A minimal JPEG, a minimal PNG and filler, in any order.
RoundTripFiles ==
    {SegJpegJfif \o SegPng, SegPng \o SegJpegJfif,
     SegFiller \o SegJpegJfif \o SegPng, SegJpegJfif \o SegFiller \o SegPng,
     SegJpegJfif \o SegPng \o SegFiller, SegFiller \o SegPng \o SegJpegJfif,
     SegPng \o SegFiller \o SegJpegJfif, SegPng \o SegJpegJfif \o SegFiller}

\* C3: round trip.  For a buffer made of a valid minimal JPEG, a valid
\* minimal PNG and filler, detection reports exactly the two regions, each
\* with its end offset and confidence 1.0, and the default extraction writes
\* two files whose contents are buffer[start_offset:end_offset] of them.
C3_RoundTrip ==
    (Analyzed /\ Binary \in RoundTripFiles) =>
        /\ Len(Regions) = 2
        /\ {Regions[i].file_type : i \in 1..2} = {"JPEG", "PNG"}
        /\ \A i \in 1..2 :
                /\ Regions[i].end_offset # None
                /\ Regions[i].confidence = 100
        /\ (Returned /\ DefaultCall) =>
                /\ extraction.failed_extractions = <<>>
                /\ Len(extraction.extracted_files) = 2
                /\ extraction.extracted_files[1].filename
                        # extraction.extracted_files[2].filename
                /\ \A i \in 1..2 :
                        LET name == extraction.extracted_files[i].filename
                        IN  /\ name \in DOMAIN fs.files
                            /\ fs.files[name] = Slice(Binary, Regions[i].start_offset,
                                                      Regions[i].end_offset)

\* C3 witness: JPEG, PNG, filler has been extracted into two files.
C3_Witness ==
    /\ Returned /\ DefaultCall
    /\ Binary = RoundTripFile
    /\ Len(extraction.extracted_files) = 2
    /\ fs.files["file-002.png"] = SegPng

\* C4: the confidence failures are exactly the non-filtered regions whose
\* confidence is below min_confidence, in order; success_rate is
\* successes / (successes + failures) and total_extracted the number of
\* successes; confidences [0.9, 0.3, 0.9] against 0.5 give one confidence
\* failure, two successes and the rate 2/3.
C4_ConfidenceFailures ==
    Returned =>
        LET low == SelectSeq(NonFiltered,
                             LAMBDA r : r.confidence < call.min_confidence)
            recorded == SelectSeq(extraction.failed_extractions, IsLowConfidenceEntry)
            successes == Len(extraction.extracted_files)
            failures == Len(extraction.failed_extractions)
        IN  /\ Len(recorded) = Len(low)
            /\ \A i \in 1..Len(low) :
                    /\ recorded[i].file_type = low[i].file_type
                    /\ recorded[i].reason =
                         "Low confidence score: " \o Fmt2(low[i].confidence)
                            \o " < " \o Fmt2(call.min_confidence)
            /\ extraction.total_extracted = successes
            /\ successes + failures > 0 =>
                    extraction.success_rate.num * (successes + failures)
                        = successes * extraction.success_rate.den
            /\ (/\ DefaultCall
                 /\ Len(Regions) = 3
                 /\ [i \in 1..Len(Regions) |-> Regions[i].confidence] = <<90, 30, 90>>
                 /\ \A i \in 1..Len(Regions) :
                        extract_file_data(hex_data, Regions[i]) # NoneBytes) =>
                    /\ Len(recorded) = 1 /\ failures = 1
                    /\ successes = 2
                    /\ extraction.success_rate.num * 3
                            = 2 * extraction.success_rate.den

\* C4 witness: the three regions scored 0.9, 0.3, 0.9 have been extracted
\* with the default threshold.
C4_Witness ==
    /\ Returned /\ DefaultCall
    /\ Binary = ThreeRegionFile
    /\ extraction.total_extracted = 2
    /\ Len(extraction.failed_extractions) = 1

\* C5: file_counter grows by one with every attempted region whatever its
\* outcome, so the k-th attempted region is recorded with file_number k and
\* no two outcome entries of one export share a file_number.
C5_CounterPerAttempt ==
    Returned =>
        LET entries == extraction.extracted_files \o extraction.failed_extractions
        IN  /\ {entries[i].file_number : i \in 1..Len(entries)} = 1..Len(entries)
            /\ \A k \in 0..Len(Regions) :
                    LET st == AfterRegions(k)
                    IN  st.file_counter = 1 + Len(st.extracted_files)
                                            + Len(st.failed_extractions)

\* C6: once the directory exists the call returns, and every region that
\* passes the type filter has exactly one entry, a success or a failure, so
\* the entries are as many as the non-filtered regions, type by type; a
\* region that fails does not keep a later one from being processed: every
\* non-filtered region that is confident and large enough is either written
\* or recorded as not saved.
C6_CollectDontAbort ==
    (pc = "extracted" /\ fs.exists /\ call.fault = "none") =>
        /\ extraction.status = "returned"
        /\ Len(extraction.extracted_files) + Len(extraction.failed_extractions)
                = Len(NonFiltered)
        /\ \A t \in DOMAIN SIGNATURE_REGISTRY :
                Count(extraction.extracted_files, LAMBDA e : e.file_type = t)
                    + Count(extraction.failed_extractions, LAMBDA f : f.file_type = t)
                = Count(NonFiltered, LAMBDA r : r.file_type = t)
        /\ \A i \in 1..Len(NonFiltered) :
                LET r == NonFiltered[i]
                IN  (/\ r.confidence >= call.min_confidence
                     /\ extract_file_data(hex_data, r) # NoneBytes) =>
                        \/ \E j \in 1..Len(extraction.extracted_files) :
                            LET e == extraction.extracted_files[j]
                            IN  /\ e.file_type = r.file_type
                                /\ e.original_position =
                                     ToString(r.start_offset) \o "-" \o Str(r.end_offset)
                        \/ \E j \in 1..Len(extraction.failed_extractions) :
                            LET f == extraction.failed_extractions[j]
                            IN  /\ f.file_type = r.file_type
                                /\ f.reason = "Failed to save file to disk"

\* C6 witness: a write failure and a confidence failure, and a region after
\* both of them written.
C6_Witness ==
    /\ Returned
    /\ Len(extraction.failed_extractions) = 2
    /\ extraction.failed_extractions[1].reason = "Failed to save file to disk"
    /\ IsLowConfidenceEntry(extraction.failed_extractions[2])
    /\ Len(extraction.extracted_files) = 1
    /\ extraction.extracted_files[1].file_number = 3

\* C7: the files of one export are named file-NNN.<ext>, NNN the sequence
\* number padded to three digits and ext the signature's extension, in
\* processing order: after any number of regions the counter is above the
\* number of every file written so far, so the written files' numbers grow
\* strictly, no two share a name, and each is on disk with its own bytes.
C7_FileNames ==
    Returned =>
        LET written == extraction.extracted_files
        IN  /\ \A i \in 1..Len(written) :
                    /\ written[i].filename =
                         "file-" \o Pad3(written[i].file_number) \o "."
                            \o SIGNATURE_REGISTRY[written[i].file_type].extension
                    /\ written[i].filename \in DOMAIN fs.files
                    /\ Len(fs.files[written[i].filename]) = written[i].size
            /\ \A i \in 1..Len(written), j \in 1..Len(written) :
                    i < j => /\ written[i].file_number < written[j].file_number
                             /\ written[i].filename # written[j].filename
            /\ \A k \in 0..Len(Regions) :
                    LET st == AfterRegions(k)
                    IN  \A i \in 1..Len(st.extracted_files) :
                            st.extracted_files[i].file_number < st.file_counter

\* C7 witness: file-001.jpg and file-003.jpg written, the region between
\* them recorded as failed.
C7_Witness ==
    /\ Returned
    /\ Len(extraction.extracted_files) = 2
    /\ extraction.extracted_files[1].filename = "file-001.jpg"
    /\ extraction.extracted_files[2].filename = "file-003.jpg"
    /\ Len(extraction.failed_extractions) = 1

\* The directory call the export has to make fails.
CannotPrepare(dir, clean_existing, fault) ==
    \/ fault = "makedirs" /\ (~dir.exists \/ clean_existing)
    \/ fault = "rmtree" /\ dir.exists /\ clean_existing

\* C8: when the output directory cannot be created or cleaned the export
\* raises the I/O error before any region is processed: the caller gets no
\* ExtractionResult, and no file is written or changed.
C8_DirectoryFailureIsFatal ==
    [][ (pc = "analyzed" /\ pc' = "extracted"
            /\ CannotPrepare(fs, call'.clean_existing, call'.fault)) =>
            /\ extraction'.status = "raised"
            /\ "extracted_files" \notin DOMAIN extraction'
            /\ "failed_extractions" \notin DOMAIN extraction'
            /\ \A n \in DOMAIN fs'.files :
                    n \in DOMAIN fs.files /\ fs'.files[n] = fs.files[n] ]_vars

\* C8 witness: the export of a file with regions has raised.
C8_Witness ==
    /\ pc = "extracted"
    /\ extraction.status = "raised"
    /\ Len(Regions) > 0

\* No start pattern of the registry, nor the big-endian TIFF magic, occurs.
NoSignature == \A p \in StartPatterns : Occurrences(Binary, p) = {}

\* C9: zero regions.  Analysis of a buffer that holds no signature returns an
\* empty detected_files list and an empty analysis_summary; extraction of an
\* empty region list returns success_rate 0.0 with no success entry, no
\* failure entry and no file written.
C9_ZeroRegions ==
    /\ (Analyzed /\ NoSignature) =>
            /\ Regions = <<>>
            /\ DOMAIN analysis_result.analysis_summary = {}
    /\ (Returned /\ Regions = <<>>) =>
            /\ extraction.success_rate.num = 0
            /\ extraction.success_rate.den # 0
            /\ extraction.extracted_files = <<>>
            /\ extraction.failed_extractions = <<>>
            /\ extraction.total_extracted = 0
            /\ \A n \in DOMAIN fs.files : IsStale(n)

\* C9 witness: a buffer of filler alone has been analyzed and extracted.
C9_Witness ==
    /\ Returned
    /\ Binary = SegFiller
    /\ Regions = <<>>
    /\ extraction.success_rate.num = 0

(***************************************************************************)
(* Detection as calls of its own: find_signature_positions for one         *)
(* registered signature and detect_file_signatures for a list of types,    *)
(* on source files concatenated from the segments below.                   *)
(***************************************************************************)
B_WAVE == <<\H57, \H41, \H56, \H45>>

\* TIFF headers of either byte order with the IFD at offset 8, padded to the
\* min_size of the TIFF signature.
SegTiffLittle == B_II \o <<8, 0, 0, 0>> \o Zeros(18)
SegTiffBig == big_endian_pattern \o <<0, 0, 0, 8>> \o Zeros(18)

\* The same headers with an IFD offset field of 2, inside the header itself.
SegTiffLittleIfd2 == B_II \o <<2, 0, 0, 0>> \o Zeros(18)
SegTiffBigIfd2 == big_endian_pattern \o <<0, 0, 0, 2>> \o Zeros(18)

\* A little-endian TIFF header, its IFD at offset 8, and 4 bytes behind it.
SegTiffShort == B_II \o <<8, 0, 0, 0>> \o Zeros(4)

\* A RIFF container that is a WAVE file, not a WEBP image.
SegRiffWave == SIGNATURE_REGISTRY["WEBP"].start_pattern \o <<4, 0, 0, 0>> \o B_WAVE

\* SOI whose third byte opens an EOI marker (FF D8 FF D9), then a DQT
\* segment and the EOI proper.
SegJpegEarlyEoi ==
    <<\HFF, \HD8, \HFF, \HD9>> \o <<\HFF, \HDB, 0, 8, 1, 1, 1, 1, 1, 1>>
    \o <<\HFF, \HD9>>

\* The JPEG start pattern with the end pattern right behind it.
SegJpegEmpty == SIGNATURE_REGISTRY["JPEG"].start_pattern
                    \o SIGNATURE_REGISTRY["JPEG"].end_pattern

DetectSegments ==
    {SegTiffLittle, SegTiffBig, SegTiffLittleIfd2, SegTiffBigIfd2, SegTiffShort,
     SegRiffWave, SegWebpHeader, SegPngNoIhdr, SegJpegEarlyEoi, SegJpegHeader,
     SegJpegEmpty, SegGifBadVersion, SegFiller}

RECURSIVE DetectFiles(_)
DetectFiles(n) ==
    IF n = 0 THEN {<<>>}
    ELSE LET shorter == DetectFiles(n - 1)
         IN  shorter \cup {f \o seg : f \in shorter, seg \in DetectSegments}

\* None (every registered type), a list that names a type twice, and a list
\* with a type the registry does not know.
DetectTargetTypes ==
    {NoneList, <<"TIFF", "PNG", "TIFF">>, <<"WEBP", "BMP", "JPEG">>}

InitDetect ==
    /\ pc = "call"
    /\ \/ \E t \in DOMAIN SIGNATURE_REGISTRY :
            call = [fn |-> "find_signature_positions", file_type |-> t]
       \/ \E target_types \in DetectTargetTypes :
            call = [fn |-> "detect_file_signatures", target_types |-> target_types]
    /\ ret = None
    /\ \E file \in DetectFiles(MaxSegs) :
            hex_data = read_file_as_hex_data(SourcePath, file, DefaultBytesPerLine)
    /\ analysis_result = NoAnalysis
    /\ fs = NoFs
    /\ extraction = NoExtraction

FindSignaturePositions ==
    /\ pc = "call"
    /\ call.fn = "find_signature_positions"
    /\ ret' = find_signature_positions(hex_data, SIGNATURE_REGISTRY[call.file_type])
    /\ pc' = "returned"
    /\ UNCHANGED <<call, hex_data, analysis_result, fs, extraction>>

DetectFileSignatures ==
    /\ pc = "call"
    /\ call.fn = "detect_file_signatures"
    /\ ret' = detect_file_signatures(hex_data, call.target_types)
    /\ pc' = "returned"
    /\ UNCHANGED <<call, hex_data, analysis_result, fs, extraction>>

NextDetect == FindSignaturePositions \/ DetectFileSignatures

SpecDetect == InitDetect /\ [][NextDetect]_vars

PositionsReturned == pc = "returned" /\ call.fn = "find_signature_positions"
DetectReturned == pc = "returned" /\ call.fn = "detect_file_signatures"

\* The types a detect call scans, in the order it scans them.
Scanned ==
    SelectSeq(IF call.target_types = NoneList THEN RegistryKeys ELSE call.target_types,
              LAMBDA t : t \in DOMAIN SIGNATURE_REGISTRY)

\* The regions in the order the scan discovers them: type after type in the
\* order of the scan, inside a type in the order of its position list.
Discovered == DetectLoop(hex_data, Binary, Scanned, 1, <<>>)

\* list rearranged by ascending start_offset, the elements of one
\* start_offset in the order they have in list.
StableByStart(list) ==
    LET RECURSIVE Cat(_)
        Cat(keys) ==
            IF keys = {} THEN <<>>
            ELSE LET k == CHOOSE x \in keys : \A y \in keys : x <= y
                 IN  SelectSeq(list, LAMBDA r : r.start_offset = k)
                        \o Cat(keys \ {k})
    IN  Cat({list[i].start_offset : i \in 1..Len(list)})

\* C12: the list detect_file_signatures returns is ascending by start_offset,
\* and regions of one start_offset keep the order of their discovery (inside
\* a type the order of its positions, across types the order of the scan).
C12_SortedStable ==
    DetectReturned =>
        /\ \A i \in 1..(Len(ret) - 1) : ret[i].start_offset <= ret[i + 1].start_offset
        /\ ret = StableByStart(Discovered)

\* C12 witness: a PNG in front of a TIFF, scanned as TIFF, PNG, TIFF: the
\* sort has moved the PNG to the front and two regions share a start_offset.
C12_Witness ==
    /\ DetectReturned
    /\ Len(ret) = 3
    /\ ret # Discovered
    /\ ret[1].file_type = "PNG"
    /\ ret[2].start_offset = ret[3].start_offset

\* Bytes [p+8, p+12) exist and are the given form type.
FormTypeAt(p, form) ==
    /\ p + 12 <= Len(Binary)
    /\ Slice(Binary, p + 8, p + 12) = form

\* RIFF, 4 bytes and WAVE stand at p.
RiffWaveAt(p) ==
    /\ p \in Occurrences(Binary, SIGNATURE_REGISTRY["WEBP"].start_pattern)
    /\ FormTypeAt(p, B_WAVE)

\* C13: an offset is a WEBP candidate only if bytes [start+8, start+12)
\* exist and equal WEBP; where RIFF, 4 bytes and WAVE stand there is no WEBP
\* entry, neither in find_signature_positions nor in the detect result.
C13_WebpPreFilter ==
    /\ (PositionsReturned /\ call.file_type = "WEBP") =>
            /\ \A i \in 1..Len(ret) : FormTypeAt(ret[i][1], B_WEBP)
            /\ \A p \in 0..Len(Binary) :
                    RiffWaveAt(p) => \A i \in 1..Len(ret) : ret[i][1] # p
    /\ DetectReturned =>
            \A i \in 1..Len(ret) :
                ret[i].file_type = "WEBP" =>
                    /\ FormTypeAt(ret[i].start_offset, B_WEBP)
                    /\ ~RiffWaveAt(ret[i].start_offset)

\* C13 witness: a RIFF/WAVE header followed by a RIFF/WEBP header; the
\* positions returned for WEBP hold the second and not the first.
C13_Witness ==
    /\ PositionsReturned
    /\ call.file_type = "WEBP"
    /\ Binary = SegRiffWave \o SegWebpHeader
    /\ RiffWaveAt(0)
    /\ ret = <<<<Len(SegRiffWave), None>>>>

Range(seq) == {seq[i] : i \in 1..Len(seq)}

\* One of the two TIFF prefixes stands at p.
TiffPrefixAt(p) ==
    /\ p + 4 <= Len(Binary)
    /\ Slice(Binary, p, p + 4) \in {B_II, big_endian_pattern}

\* The IFD offset field behind the prefix at p, read in the byte order the
\* prefix announces.
IfdOffset(p) ==
    IF Slice(Binary, p, p + 4) = B_II
    THEN FromBytesLittle(Slice(Binary, p + 4, p + 8))
    ELSE FromBytesBig(Slice(Binary, p + 4, p + 8))

\* The field is there and points behind the header and into the buffer.
PlausibleIfd(p) ==
    /\ p + 8 <= Len(Binary)
    /\ 8 <= IfdOffset(p)
    /\ IfdOffset(p) <= Len(Binary) - p

\* The indices of the returned regions of file_type that start at p.
RegionsAt(file_type, p) ==
    {i \in 1..Len(ret) : ret[i].file_type = file_type /\ ret[i].start_offset = p}

TiffCandidates ==
    Occurrences(Binary, B_II) \cup Occurrences(Binary, big_endian_pattern)

\* C14, as stated: both II*\x00 and MM\x00*, each followed by a plausible IFD
\* offset, are reported by detect_file_signatures as a TIFF region starting
\* at the prefix with confidence 1.0; the TIFF candidates are the offsets of
\* both prefixes together.
C14_TiffByteOrder ==
    /\ (DetectReturned /\ "TIFF" \in Range(Scanned)) =>
            \A p \in 0..Len(Binary) :
                (TiffPrefixAt(p) /\ PlausibleIfd(p)) =>
                    /\ RegionsAt("TIFF", p) # {}
                    /\ \A i \in RegionsAt("TIFF", p) : ret[i].confidence = 100
    /\ (PositionsReturned /\ call.file_type = "TIFF") =>
            {ret[i][1] : i \in 1..Len(ret)} = TiffCandidates

\* C14, amended: the same, for the prefixes from which at least min_size
\* bytes of the buffer remain; a TIFF region has no end offset, so nearer to
\* the end of the buffer the size check halves its confidence.
C14_TiffByteOrderSized ==
    /\ (DetectReturned /\ "TIFF" \in Range(Scanned)) =>
            \A p \in 0..Len(Binary) :
                (/\ TiffPrefixAt(p)
                 /\ PlausibleIfd(p)
                 /\ Len(Binary) - p >= SIGNATURE_REGISTRY["TIFF"].min_size) =>
                    /\ RegionsAt("TIFF", p) # {}
                    /\ \A i \in RegionsAt("TIFF", p) : ret[i].confidence = 100
    /\ (PositionsReturned /\ call.file_type = "TIFF") =>
            {ret[i][1] : i \in 1..Len(ret)} = TiffCandidates

\* C14 witness: a big-endian TIFF followed by a little-endian one, both of
\* min_size bytes with the IFD at offset 8, both reported with confidence 1.0.
C14_Witness ==
    /\ DetectReturned
    /\ call.target_types = NoneList
    /\ Binary = SegTiffBig \o SegTiffLittle
    /\ PlausibleIfd(0) /\ PlausibleIfd(Len(SegTiffBig))
    /\ Len(ret) = 2
    /\ \A i \in 1..2 : ret[i].file_type = "TIFF" /\ ret[i].confidence = 100

\* The buffer with the IFD offset field of the TIFF header at p set to 8.
WithIfdAtEight(p) ==
    LET field == IF Slice(Binary, p, p + 4) = B_II
                 THEN <<8, 0, 0, 0>> ELSE <<0, 0, 0, 8>>
    IN  Slice(Binary, 0, p + 4) \o field \o SliceFrom(Binary, p + 8)

\* The confidence detect_file_signatures gives the TIFF region at p when the
\* IFD offset field there is 8.
ConfidenceWithPlausibleIfd(p) ==
    LET twin == detect_file_signatures(
                    read_file_as_hex_data(SourcePath, WithIfdAtEight(p),
                                          DefaultBytesPerLine),
                    call.target_types)
        i == CHOOSE i \in 1..Len(twin) :
                twin[i].file_type = "TIFF" /\ twin[i].start_offset = p
    IN  twin[i].confidence

\* C15: a TIFF prefix followed by an IFD offset field of 2 is reported as a
\* TIFF region whose confidence is 0.5 times the confidence of the same
\* region with a plausible IFD offset.
C15_TiffIfdOffsetTwo ==
    (DetectReturned /\ "TIFF" \in Range(Scanned)) =>
        \A p \in 0..Len(Binary) :
            (TiffPrefixAt(p) /\ p + 8 <= Len(Binary) /\ IfdOffset(p) = 2) =>
                /\ RegionsAt("TIFF", p) # {}
                /\ \A i \in RegionsAt("TIFF", p) :
                        ret[i].confidence = Times(ConfidenceWithPlausibleIfd(p), 50)

\* The validator registered for the type of a region, called on the buffer
\* with the start and end of the region.
RegisteredValidation(r) ==
    CallValidator(r.signature.validator, Binary, r.start_offset, r.end_offset)

\* C16: for every registered type and every candidate, the confidence stored
\* in the region is the size-floor factor multiplied by the result of the
\* validator registered for the type, on the same buffer, start and end.
C16_ConfidenceUsesRegisteredValidator ==
    DetectReturned =>
        \A i \in 1..Len(ret) :
            ret[i].confidence =
                Times(SizeCheck(Binary, ret[i].start_offset, ret[i].end_offset,
                                ret[i].signature),
                      RegisteredValidation(ret[i]))

\* The format check of validate_detected_file finds nothing to object to:
\* there is none for the type, or the header it inspects is complete and as
\* it expects.
FormatCheckPasses ==
    LET b == call.binary_data
        s == call.start_pos
    IN  CASE call.file_type \in {"PNG", "TIFF"} -> TRUE
          [] call.file_type = "GIF" ->
                s + 6 <= Len(b) /\ Slice(b, s, s + 6) \in {B_GIF87a, B_GIF89a}
          [] call.file_type = "WEBP" ->
                s + 12 <= Len(b) /\ Slice(b, s + 8, s + 12) = B_WEBP
          [] call.file_type = "JPEG" ->
                /\ s + 14 <= Len(b)
                /\ Slice(b, s, s + 4) = <<\HFF, \HD8, \HFF, \HE0>>
                /\ Slice(b, s + 6, s + 10) = B_JFIF

\* C17: the size-floor factor of validate_detected_file is 0.3 exactly when
\* the end is known and end - start < min_size, 0.5 exactly when the end is
\* unknown, min_size > 0 and len(buffer) - start < min_size, and 1.0 in every
\* other case.  The factor is the returned confidence where the format check
\* leaves the confidence as it is.
C17_SizeFloorFactor ==
    (/\ ValidateReturned
     /\ call.fn = "validate_detected_file"
     /\ FormatCheckPasses) =>
        LET min_size == SIGNATURE_REGISTRY[call.file_type].min_size
            short_known ==
                /\ call.end_pos # None
                /\ call.end_pos - call.start_pos < min_size
            short_unknown ==
                /\ call.end_pos = None
                /\ min_size > 0
                /\ Len(call.binary_data) - call.start_pos < min_size
        IN  /\ ret = 30 <=> short_known
            /\ ret = 50 <=> short_unknown
            /\ (~short_known /\ ~short_unknown) => ret = 100

\* C17 witness: a PNG candidate without end from which one byte less than
\* min_size remains, scored 0.5.
C17_Witness ==
    /\ ValidateReturned
    /\ call.fn = "validate_detected_file"
    /\ call.file_type = "PNG"
    /\ call.end_pos = None
    /\ Len(call.binary_data) - call.start_pos = SIGNATURE_REGISTRY["PNG"].min_size - 1
    /\ ret = 50

\* The end offset of a candidate of signature that starts at start: behind
\* the first end_pattern at or after start + len(start_pattern), None when
\* there is no end_pattern or it does not occur there.
ResolvedEnd(signature, start) ==
    IF signature.end_pattern = <<>> THEN None
    ELSE LET qs == {q \in Occurrences(Binary, signature.end_pattern) :
                        q >= start + Len(signature.start_pattern)}
         IN  IF qs = {} THEN None
             ELSE (CHOOSE q \in qs : \A x \in qs : q <= x) + Len(signature.end_pattern)

\* C18: for a signature with an end_pattern, end_offset = q + len(end_pattern)
\* where q is the smallest offset >= start + len(start_pattern) at which
\* end_pattern occurs; end_offset is None when there is no such q or the
\* signature has no end_pattern.  detect_file_signatures stores that end.
C18_EndResolution ==
    /\ PositionsReturned =>
            \A i \in 1..Len(ret) :
                ret[i][2] = ResolvedEnd(SIGNATURE_REGISTRY[call.file_type], ret[i][1])
    /\ DetectReturned =>
            \A i \in 1..Len(ret) :
                ret[i].end_offset = ResolvedEnd(ret[i].signature, ret[i].start_offset)

\* C18 witness: FF D8 FF D9 ..., whose first FF D9 lies inside the start
\* pattern and is passed over, followed by a JPEG header with no FF D9
\* behind it: ends 16 and None.
C18_Witness ==
    /\ PositionsReturned
    /\ call.file_type = "JPEG"
    /\ Binary = SegJpegEarlyEoi \o SegJpegHeader
    /\ 2 \in Occurrences(Binary, SIGNATURE_REGISTRY["JPEG"].end_pattern)
    /\ ret = <<<<0, Len(SegJpegEarlyEoi)>>, <<Len(SegJpegEarlyEoi), None>>>>

\* The candidate start offsets of a type: the offsets of its start pattern,
\* for TIFF of either prefix, for WEBP those with the WEBP form type.
Candidates(file_type) ==
    IF file_type = "TIFF" THEN TiffCandidates
    ELSE IF file_type = "WEBP"
    THEN {p \in Occurrences(Binary, SIGNATURE_REGISTRY["WEBP"].start_pattern) :
            FormTypeAt(p, B_WEBP)}
    ELSE Occurrences(Binary, SIGNATURE_REGISTRY[file_type].start_pattern)

\* How often the scan visits file_type: once, unless the list names it again.
Scans(file_type) == Cardinality({k \in 1..Len(Scanned) : Scanned[k] = file_type})

\* C19: detect_file_signatures discards no candidate for being small or
\* implausible: every scan of a type returns exactly one region per candidate
\* start offset, whatever its size or confidence, and no other region.
C19_NoCandidateDiscarded ==
    DetectReturned =>
        /\ \A i \in 1..Len(ret) : ret[i].file_type \in Range(Scanned)
        /\ \A t \in Range(Scanned) :
            \A p \in 0..Len(Binary) :
                Cardinality(RegionsAt(t, p)) =
                    IF p \in Candidates(t) THEN Scans(t) ELSE 0

\* C19 witness: every type scanned once over a 16-byte JPEG and a 12-byte
\* TIFF; both are far below min_size, score 0.18 and 0.5, and are returned.
C19_Witness ==
    /\ DetectReturned
    /\ call.target_types = NoneList
    /\ Binary = SegJpegEarlyEoi \o SegTiffShort
    /\ Len(ret) = 2
    /\ ret[1].file_type = "JPEG" /\ ret[1].size = 16 /\ ret[1].confidence = 18
    /\ ret[2].file_type = "TIFF" /\ ret[2].confidence = 50

\* C20: for a JPEG candidate whose byte at start+3 is 0xE0 and from whose
\* start at least 10 bytes are available, the format factor is 1.0 if bytes
\* [start+6, start+10) equal JFIF and 0.8 otherwise: validate_jpeg_format
\* returns it, validate_detected_file the size-floor factor times it.
C20_JfifRule ==
    (/\ ValidateReturned
     /\ call.file_type = "JPEG"
     /\ call.start_pos + 10 <= Len(call.binary_data)
     /\ Slice(call.binary_data, call.start_pos, call.start_pos + 4)
            = <<\HFF, \HD8, \HFF, \HE0>>) =>
        LET factor ==
                IF Slice(call.binary_data, call.start_pos + 6, call.start_pos + 10)
                        = B_JFIF
                THEN 100 ELSE 80
        IN  IF call.fn = "validate_format"
            THEN ret = factor
            ELSE ret = Times(SizeCheck(call.binary_data, call.start_pos, call.end_pos,
                                       SIGNATURE_REGISTRY["JPEG"]),
                             factor)

JpegCall == ValidateReturned /\ call.file_type = "JPEG"

\* The bytes of the buffer from start on.
Available == Len(call.binary_data) - call.start_pos

\* The byte at start+3.
JpegMarker == call.binary_data[call.start_pos + 4]

\* The call has returned the given format factor: validate_format the factor
\* itself, validate_detected_file the size-floor factor times it.
Scored(factor) ==
    IF call.fn = "validate_format"
    THEN ret = factor
    ELSE ret = Times(SizeCheck(call.binary_data, call.start_pos, call.end_pos,
                               SIGNATURE_REGISTRY[call.file_type]),
                     factor)

\* The penalty of a marker byte whose sub-check is left out.
BasePenalty(marker) ==
    CASE marker \in {\HE0, \HE1} -> 80
      [] marker = \HE8 -> 70
      [] marker \in {\HDB, \HC0} -> 90
      [] marker \in (\HC1)..(\HCF) -> 80
      [] OTHER -> 60

\* C21: with fewer than 4 bytes available from start the JPEG factor is 0.3;
\* with at least 4 and fewer than 10 the sub-check is skipped and the factor
\* is the base penalty of the marker byte at start+3.
C21_JpegTruncation ==
    JpegCall =>
        /\ Available < 4 => Scored(30)
        /\ (4 <= Available /\ Available < 10) => Scored(BasePenalty(JpegMarker))

\* The factor the marker table gives with the whole window in the buffer.
MarkerTableFactor ==
    LET b == call.binary_data
        s == call.start_pos
    IN  CASE JpegMarker = \HE0 ->
                IF Slice(b, s + 6, s + 10) = B_JFIF THEN 100 ELSE 80
          [] JpegMarker = \HE1 ->
                IF Slice(b, s + 10, s + 14) = B_Exif THEN 100 ELSE 80
          [] JpegMarker = \HE8 ->
                IF Slice(b, s + 6, s + 11) = B_SPIFF THEN 100 ELSE 70
          [] JpegMarker \in {\HDB, \HC0} -> 90
          [] JpegMarker \in (\HC1)..(\HCF) -> 80
          [] OTHER -> 60

\* C22: with the full inspection window available the JPEG factor is decided
\* by the byte at start+3, first match first: 0xE0 (1.0 with JFIF, else 0.8),
\* 0xE1 (1.0 with Exif at [start+10, start+14), else 0.8), 0xE8 (1.0 with
\* SPIFF, else 0.7), 0xDB or 0xC0 (0.9), another byte of [0xC1, 0xCF] (0.8),
\* anything else (0.6); 0xC0 scores 0.9, never 0.8.
C22_JpegMarkerTable ==
    (JpegCall /\ Available >= 14) =>
        /\ Scored(MarkerTableFactor)
        /\ (JpegMarker = \HC0 /\ call.fn = "validate_format") => ret = 90

\* C22 witness: validate_jpeg_format has scored FF D8 FF C0 with 14 bytes
\* available 0.9.
C22_Witness ==
    /\ JpegCall
    /\ call.fn = "validate_format"
    /\ Available = 14
    /\ Slice(call.binary_data, call.start_pos, call.start_pos + 4)
            = <<\HFF, \HD8, \HFF, \HC0>>
    /\ ret = 90

\* The length of buffer[start:end] of a region, buffer[start:] without end.
SliceLen(r) ==
    IF r.end_offset = None
    THEN Len(SliceFrom(Binary, r.start_offset))
    ELSE Len(Slice(Binary, r.start_offset, r.end_offset))

\* "start-end" as a success entry records it.
Position(r) == ToString(r.start_offset) \o "-" \o Str(r.end_offset)

TypesOf(seq) == [i \in 1..Len(seq) |-> seq[i].file_type]

\* C23: each region that passes the type filter gets one outcome, by fixed
\* precedence: a confidence failure iff confidence < min_confidence (a region
\* scored exactly min_confidence is attempted); otherwise a size failure iff
\* its slice is shorter than min_size; otherwise a write failure iff the
\* write fails; otherwise a success whose size is the length of the slice.
C23_FailureClassification ==
    Returned =>
        LET low == SelectSeq(NonFiltered,
                             LAMBDA r : r.confidence < call.min_confidence)
            short == SelectSeq(NonFiltered,
                               LAMBDA r : /\ r.confidence >= call.min_confidence
                                          /\ SliceLen(r) < r.signature.min_size)
            able == SelectSeq(NonFiltered,
                              LAMBDA r : /\ r.confidence >= call.min_confidence
                                         /\ SliceLen(r) >= r.signature.min_size)
            failed == extraction.failed_extractions
            written == extraction.extracted_files
            confidence_failures == SelectSeq(failed, IsLowConfidenceEntry)
            size_failures ==
                SelectSeq(failed, LAMBDA f :
                            f.reason = "Failed to extract data or file too small")
            write_failures ==
                SelectSeq(failed, LAMBDA f : f.reason = "Failed to save file to disk")
        IN  /\ Len(failed) + Len(written) = Len(NonFiltered)
            /\ TypesOf(confidence_failures) = TypesOf(low)
            /\ TypesOf(size_failures) = TypesOf(short)
            /\ Len(write_failures) + Len(written) = Len(able)
            /\ \A i \in 1..Len(written) :
                    \E k \in 1..Len(able) :
                        /\ written[i].original_position = Position(able[k])
                        /\ written[i].file_type = able[k].file_type
                        /\ written[i].size = SliceLen(able[k])
            \* every write succeeds / every write fails
            /\ call.write_fails = {} =>
                    /\ write_failures = <<>>
                    /\ [i \in 1..Len(written) |-> written[i].original_position]
                            = [k \in 1..Len(able) |-> Position(able[k])]
            /\ call.write_fails = 1..Len(Regions) =>
                    /\ written = <<>>
                    /\ TypesOf(write_failures) = TypesOf(able)

\* C23 witness: with min_confidence 0.3 a GIF scored exactly 0.3 is written
\* with the size of its slice, and the headless JPEG behind it, scored 0.5
\* and 20 bytes long, is a size failure.
C23_Witness ==
    /\ Returned
    /\ Binary = SegGifBadVersion \o SegJpegHeader
    /\ call.min_confidence = 30
    /\ call.file_types = NoneList
    /\ Len(extraction.extracted_files) = 1
    /\ extraction.extracted_files[1].confidence = call.min_confidence
    /\ extraction.extracted_files[1].size = Len(SegGifBadVersion)
    /\ Len(extraction.failed_extractions) = 1
    /\ extraction.failed_extractions[1].reason
            = "Failed to extract data or file too small"

\* The names of the files this call has written.
WrittenNames ==
    {extraction.extracted_files[i].filename :
        i \in 1..Len(extraction.extracted_files)}

\* C24: with clean_existing=True on an existing directory the contents are
\* removed and the directory recreated before any region is written, so
\* after the call returns the directory holds exactly the files this call
\* wrote, each with the bytes of its region; an absent directory is created
\* and holds the same.
C24_CleanSlate ==
    (Returned /\ ((call.dir.exists /\ call.clean_existing) \/ ~call.dir.exists)) =>
        /\ fs.exists
        /\ DOMAIN fs.files = WrittenNames
        /\ \A i \in 1..Len(extraction.extracted_files) :
                LET e == extraction.extracted_files[i]
                IN  \E k \in 1..Len(Regions) :
                        /\ Position(Regions[k]) = e.original_position
                        /\ fs.files[e.filename]
                                = (IF Regions[k].end_offset = None
                                   THEN SliceFrom(Binary, Regions[k].start_offset)
                                   ELSE Slice(Binary, Regions[k].start_offset,
                                              Regions[k].end_offset))

\* C24 witness: a directory that held file-001.jpg and notes.txt of an
\* earlier run was cleaned, and holds the PNG this call wrote and nothing
\* else.
C24_Witness ==
    /\ Returned
    /\ call.clean_existing
    /\ call.dir.exists
    /\ DOMAIN call.dir.files = {"file-001.jpg", "notes.txt"}
    /\ Binary = SegPng
    /\ DOMAIN fs.files = {"file-001.png"}
    /\ fs.files["file-001.png"] = SegPng

\* The export of the non-filtered regions alone, into an empty directory.
WithoutFiltered ==
    ExtractLoop(hex_data, NonFiltered, 1, abspath(OutputDir),
                call.file_types, call.min_confidence, call.write_fails,
                [extracted_files |-> <<>>, failed_extractions |-> <<>>,
                 file_counter |-> 1, files |-> <<>>])

\* C25: a region whose type a set type filter excludes is skipped without
\* trace: no success and no failure entry is of an excluded type, and the
\* entries of the other regions (file numbers, filenames, outcomes) and the
\* files written are what they are when the list holds the other regions
\* only.
C25_TypeFilterFrame ==
    (Returned /\ call.file_types # NoneList) =>
        /\ \A i \in 1..Len(extraction.extracted_files) :
                extraction.extracted_files[i].file_type \in Range(call.file_types)
        /\ \A i \in 1..Len(extraction.failed_extractions) :
                extraction.failed_extractions[i].file_type \in Range(call.file_types)
        /\ extraction.extracted_files = WithoutFiltered.extracted_files
        /\ extraction.failed_extractions = WithoutFiltered.failed_extractions
        /\ \A n \in DOMAIN WithoutFiltered.files :
                n \in DOMAIN fs.files /\ fs.files[n] = WithoutFiltered.files[n]

\* C25 witness: a PNG in front of a JPEG, exported with the filter JPEG: the
\* PNG has left nothing and the JPEG is file-001.jpg.
C25_Witness ==
    /\ Returned
    /\ call.file_types = <<"JPEG">>
    /\ call.write_fails = {}
    /\ Binary = SegPng \o SegJpegJfif
    /\ Regions[1].file_type = "PNG"
    /\ extraction.failed_extractions = <<>>
    /\ Len(extraction.extracted_files) = 1
    /\ extraction.extracted_files[1].filename = "file-001.jpg"

(***************************************************************************)
(* Reading as calls of its own: read_file_as_hex_data with a line width,   *)
(* then reconstruct_binary_data on the HexData it returned (the reader is  *)
(* the only place that builds a HexData).                                  *)
(***************************************************************************)
ReadFiles == SeqUpTo({\H00, \HFF}, MaxData) \cup {SegJpegHeader, SegFiller}

LineWidths == (1..MaxLine) \cup {DefaultBytesPerLine}

InitRead ==
    /\ pc = "call"
    /\ \E file \in ReadFiles, bytes_per_line \in LineWidths :
            call = [fn |-> "read_file_as_hex_data", file |-> file,
                    bytes_per_line |-> bytes_per_line]
    /\ ret = None
    /\ PipelineIdle

ReadFileAsHexData ==
    /\ pc = "call"
    /\ call.fn = "read_file_as_hex_data"
    /\ hex_data' = read_file_as_hex_data(SourcePath, call.file, call.bytes_per_line)
    /\ pc' = "read"
    /\ UNCHANGED <<call, ret, analysis_result, fs, extraction>>

ReconstructBinaryData ==
    /\ pc = "read"
    /\ call.fn = "read_file_as_hex_data"
    /\ ret' = reconstruct_binary_data(hex_data)
    /\ pc' = "reconstructed"
    /\ UNCHANGED <<call, hex_data, analysis_result, fs, extraction>>

NextRead == ReadFileAsHexData \/ ReconstructBinaryData

SpecRead == InitRead /\ [][NextRead]_vars

\* C26: the lines read_file_as_hex_data returns for a bytes_per_line >= 1
\* have contiguous, ascending offsets from 0; reconstruct_binary_data returns
\* their raw bytes in that order, so byte offset + j of the result is byte j
\* of the line at offset, the result equals the bytes of the file and its
\* length is total_bytes_read.
C26_Reconstruction ==
    /\ pc \in {"read", "reconstructed"} =>
            LET lines == hex_data.lines
            IN  /\ lines # <<>> => lines[1].offset = 0
                /\ \A i \in 1..Len(lines) :
                        /\ 1 <= Len(lines[i].raw_bytes)
                        /\ Len(lines[i].raw_bytes) <= call.bytes_per_line
                /\ \A i \in 1..(Len(lines) - 1) :
                        lines[i + 1].offset = lines[i].offset + Len(lines[i].raw_bytes)
    /\ pc = "reconstructed" =>
            /\ ret = call.file
            /\ Len(ret) = hex_data.total_bytes_read
            /\ \A i \in 1..Len(hex_data.lines) :
                    \A j \in 1..Len(hex_data.lines[i].raw_bytes) :
                        ret[hex_data.lines[i].offset + j] = hex_data.lines[i].raw_bytes[j]

\* C26 witness: a file of 5 bytes read 2 bytes a line, in lines at offsets
\* 0, 2 and 4, and reconstructed.
C26_Witness ==
    /\ pc = "reconstructed"
    /\ call.bytes_per_line = 2
    /\ call.file = <<\H00, \HFF, \HFF, \H00, \HFF>>
    /\ [i \in 1..Len(hex_data.lines) |-> hex_data.lines[i].offset] = <<0, 2, 4>>
    /\ ret = call.file

\* The unsigned value of 4 bytes, least / most significant byte first.
LittleEndian(f) == f[1] + 256 * (f[2] + 256 * (f[3] + 256 * f[4]))
BigEndian(f) == f[4] + 256 * (f[3] + 256 * (f[2] + 256 * f[1]))

\* C27: validate_tiff_format reads the field at [start+4, start+8)
\* little-endian behind II*\x00 and big-endian behind MM\x00*; it returns 1.0
\* iff 8 <= offset <= len(buffer) - start and 0.5 when the offset is outside
\* that bound, 0.2 when the first 4 bytes are neither header, and a value
\* from 0.2 to 0.3 when fewer than 8 bytes are available from start.
C27_TiffIfdOffset ==
    (ValidateReturned /\ call.fn = "validate_format" /\ call.file_type = "TIFF") =>
        IF Available >= 8
        THEN LET header == Slice(call.binary_data, call.start_pos, call.start_pos + 4)
                 field == Slice(call.binary_data, call.start_pos + 4,
                                call.start_pos + 8)
                 InBound(offset) == 8 <= offset /\ offset <= Available
             IN  CASE header = B_II ->
                        /\ ret = 100 <=> InBound(LittleEndian(field))
                        /\ ~InBound(LittleEndian(field)) => ret = 50
                   [] header = big_endian_pattern ->
                        /\ ret = 100 <=> InBound(BigEndian(field))
                        /\ ~InBound(BigEndian(field)) => ret = 50
                   [] OTHER -> ret = 20
        ELSE 20 <= ret /\ ret <= 30

\* C27 witness: II*\x00 followed by 00 00 00 08, which is 8 read big-endian
\* and 134217728 read little-endian, in a buffer of 26 bytes: scored 0.5.
C27_Witness ==
    /\ ValidateReturned
    /\ call.fn = "validate_format"
    /\ call.file_type = "TIFF"
    /\ call.start_pos = 0
    /\ Len(call.binary_data) = 26
    /\ Slice(call.binary_data, 0, 8) = B_II \o <<0, 0, 0, 8>>
    /\ ret = 50

\* C28: every region detect_file_signatures returns starts inside the
\* buffer; with an end_offset, the start and the end pattern fit between
\* start and end, the end is inside the buffer and size is end_offset -
\* start_offset, which is positive; without, size is None; WEBP and TIFF
\* regions have no end_offset.
C28_RegionBounds ==
    DetectReturned =>
        \A i \in 1..Len(ret) :
            LET r == ret[i]
            IN  /\ 0 <= r.start_offset /\ r.start_offset < Len(Binary)
                /\ r.end_offset # None =>
                        /\ r.start_offset + Len(r.signature.start_pattern)
                                + Len(r.signature.end_pattern) <= r.end_offset
                        /\ r.end_offset <= Len(Binary)
                        /\ r.size = r.end_offset - r.start_offset
                        /\ r.size > 0
                /\ r.end_offset = None => r.size = None
                /\ r.file_type \in {"WEBP", "TIFF"} => r.end_offset = None

\* C28 witness: FF D8 FF FF D9, a JPEG region of the least size there is,
\* and a TIFF header behind it, a region without end and size.
C28_Witness ==
    /\ DetectReturned
    /\ call.target_types = NoneList
    /\ Binary = SegJpegEmpty \o SegTiffShort
    /\ Len(ret) = 2
    /\ ret[1].end_offset = 5 /\ ret[1].size = 5
    /\ ret[2].file_type = "TIFF" /\ ret[2].end_offset = None /\ ret[2].size = None

\* C29: with target_types omitted no two regions of the result share a
\* start_offset (the start patterns and the big-endian TIFF magic begin with
\* pairwise different bytes, and a search reports an offset once), so the
\* result is strictly ascending by start_offset.
C29_DistinctStarts ==
    /\ \A p \in StartPatterns, q \in StartPatterns : p # q => p[1] # q[1]
    /\ (DetectReturned /\ call.target_types = NoneList) =>
            \A i \in 1..(Len(ret) - 1) : ret[i].start_offset < ret[i + 1].start_offset

\* C29 witness: a big-endian TIFF header in front of a little-endian one,
\* scanned for every type: the TIFF search finds 26 before 0, and the
\* result holds two regions at 0 and 26.
C29_Witness ==
    /\ DetectReturned
    /\ call.target_types = NoneList
    /\ Binary = SegTiffBigIfd2 \o SegTiffLittleIfd2
    /\ [i \in 1..Len(Discovered) |-> Discovered[i].start_offset] = <<26, 0>>
    /\ [i \in 1..Len(ret) |-> ret[i].start_offset] = <<0, 26>>

\* C30: with the default min_confidence 0.5, on the regions detection gave
\* for the same buffer, no region with an end_offset is a size failure (an
\* undersized one scores at most 0.3 and is a confidence failure); the size
\* failures are the undersized regions without end_offset, and each of those
\* scores exactly 0.5.
C30_SizeFailuresAreUnbounded ==
    (Returned /\ call.min_confidence = DefaultMinConfidence) =>
        LET size_failures ==
                SelectSeq(extraction.failed_extractions, LAMBDA f :
                            f.reason = "Failed to extract data or file too small")
            undersized == SelectSeq(NonFiltered,
                                    LAMBDA r : SliceLen(r) < r.signature.min_size)
            bounded == SelectSeq(undersized, LAMBDA r : r.end_offset # None)
            unbounded == SelectSeq(undersized, LAMBDA r : r.end_offset = None)
            halves == SelectSeq(unbounded, LAMBDA r : r.confidence = 50)
        IN  /\ \A i \in 1..Len(bounded) : bounded[i].confidence <= 30
            /\ TypesOf(SelectSeq(extraction.failed_extractions, IsLowConfidenceEntry))
                    = TypesOf(SelectSeq(NonFiltered, LAMBDA r : r.confidence < 50))
            /\ \A i \in 1..Len(unbounded) : unbounded[i].confidence <= 50
            /\ TypesOf(size_failures) = TypesOf(halves)

\* C30 witness: an undersized PNG with its end, scored 0.3 and turned away
\* for its confidence, and a JPEG header without end, scored 0.5 and turned
\* away for its size.
C30_Witness ==
    /\ Returned
    /\ DefaultCall
    /\ Binary = UndersizedFile
    /\ Len(Regions) = 2
    /\ Regions[1].end_offset # None /\ Regions[1].confidence = 30
    /\ Regions[2].end_offset = None /\ Regions[2].confidence = 50
    /\ Len(extraction.failed_extractions) = 2
    /\ IsLowConfidenceEntry(extraction.failed_extractions[1])
    /\ extraction.failed_extractions[2].reason
            = "Failed to extract data or file too small"

====
